---- MODULE Spec2Model ----
(***************************************************************************)
(* ModernAgro: the Express server (routes, admin gate, storage).           *)
(*                                                                         *)
(* Sources:                                                                *)
(*   routes   src/client/src/pages/BlogPostPage.tsx  (registerRoutes)      *)
(*   checkout page   src/unnamed/part_002   (CheckoutPage)                 *)
(*   storage  src/unnamed/part_008   (DatabaseStorage, MemStorage)         *)
(*   schema, admin gate, compiled server   src/dist/index.js               *)
(*                                                                         *)
(* The repository holds two builds of the storage layer: part_008 exports  *)
(* `storage = new MemStorage()`, dist/index.js instantiates                *)
(* `new DatabaseStorage()`.  The variable `backend` says which one runs.   *)
(*                                                                         *)
(* Encoding of JavaScript values:                                          *)
(*   strings            TLA+ strings; null and undefined are the strings   *)
(*                      Null and Undefined                                 *)
(*   booleans (columns) "true" / "false" / Null                            *)
(*   optional integers  <<>> for null/undefined, <<n>> for n               *)
(*   decimal strings    integers in cents ("6.99" is 699)                  *)
(*   names, searches    sequences of one-character strings                 *)
(***************************************************************************)
EXTENDS Integers, Sequences, FiniteSets, TLC

\* ------------------------------------------------------------------ bounds
MaxOrders == 2          \* orders placed in one behaviour
MaxInflight == 2        \* DatabaseStorage.createOrder calls between statements
MaxProducts == 1        \* products created in one behaviour
MaxPosts == 1           \* blog posts created in one behaviour
MaxMessages == 1        \* contact messages created in one behaviour
MaxClock == 1           \* millisecond ticks of Date.now() in the order flows
MaxSeconds == 2         \* one-second ticks of Date.now() in the gate flows

\* --------------------------------------------------------- JavaScript values
Null == "null"
Undefined == "undefined"
T == "true"
F == "false"

\* JavaScript truthiness of a string-encoded value (x || y, if (x), !x).
Truthy(v) == v \notin {Null, Undefined, F, ""}

\* x || null on a string-encoded value.
OrNull(v) == IF Truthy(v) THEN v ELSE Null

\* x || null on an optional integer: 0 is falsy.
IntOrNull(v) == IF v = <<>> \/ v = <<0>> THEN <<>> ELSE v

Put(m, k, v) == [x \in DOMAIN m \cup {k} |-> IF x = k THEN v ELSE m[x]]

Remove(m, k) == [x \in DOMAIN m \ {k} |-> m[x]]

EmptyMap == <<>>

RECURSIVE SumSeq(_)
SumSeq(s) == IF s = <<>> THEN 0 ELSE Head(s) + SumSeq(Tail(s))

\* ------------------------------------------------------------------- state
VARIABLES
  backend,          \* "mem" (MemStorage) or "db" (DatabaseStorage)
  now,              \* Date.now(), milliseconds
  users,            \* users: id -> User
  sessions,         \* express-session store: session id -> session data
  products,         \* products: id -> Product
  nextProductId,    \* MemStorage.nextProductId / products_id_seq
  orders,           \* orders: id -> Order (header)
  orderItems,       \* OrderItem rows (MemStorage keeps them inside the order)
  nextOrderId,      \* MemStorage.nextOrderId / orders_id_seq
  nextOrderItemId,  \* order_items_id_seq (DatabaseStorage only)
  blogPosts,        \* blogPosts: id -> BlogPost
  nextBlogPostId,   \* MemStorage.nextBlogPostId / blog_posts_id_seq
  contactMessages,  \* contactMessages: id -> ContactMessage
  nextContactId,    \* MemStorage.nextContactId / contact_messages_id_seq
  inflight,         \* DatabaseStorage.createOrder calls awaiting their items insert
  placed,           \* history: order id -> the line items its request carried
  res,              \* the last request handled and the response it got
  page              \* the browser: the cart and the checkout page

authVars == <<users, sessions>>
productVars == <<products, nextProductId>>
orderVars == <<orders, orderItems, nextOrderId, nextOrderItemId, inflight, placed>>
blogVars == <<blogPosts, nextBlogPostId>>
contactVars == <<contactMessages, nextContactId>>
stores == <<products, orders, orderItems, blogPosts, contactMessages>>
vars == <<backend, now, users, sessions, products, nextProductId, orders,
          orderItems, nextOrderId, nextOrderItemId, blogPosts, nextBlogPostId,
          contactMessages, nextContactId, inflight, placed, res, page>>

SessionIds == {"s1", "s2"}

\* The response of the last request.  status 0: the handler is suspended at an
\* await and has not answered yet.  body: "data" (rows of a store), "message"
\* ({message: ...}), "identity" (a user), "none".  id: the row the request
\* addressed or created.  before: what the request found stored (the status an
\* order had before a status update, the row a product delete found, the orders
\* with their items GET /api/admin/orders read).
\* stats: the figures of GET /api/admin/stats (NoStats in every other response).
NoStats ==
  [totalProducts |-> 0, totalOrders |-> 0,
   totalRevenue |-> [whole |-> 0, frac |-> 0], totalBlogPosts |-> 0]

Response(route, sid, status, body, id, uid, isAdmin, before) ==
  [route |-> route, sid |-> sid, status |-> status, body |-> body, id |-> id,
   uid |-> uid, isAdmin |-> isAdmin, before |-> before, stats |-> NoStats]

Respond(route, sid, status, body, id) ==
  Response(route, sid, status, body, id, Null, Null, Null)

NoResponse == Respond("none", "s1", 0, "none", 0)

\* ------------------------------------------------------- users and sessions
\* A session as express-session hands it to a handler.  A request without a
\* cookie, or after destroy(), gets a fresh empty session.  passport is
\* req.session.passport.user: sub = Null when req.isAuthenticated() is false.
NoPassport == [sub |-> Null, expires_at |-> 0, refresh_token |-> FALSE]

EmptySession == [userId |-> Null, isAdmin |-> Null, passport |-> NoPassport]

\* The identities the external provider can assert (claims of the id token).
ExternalSubs == {"ext1", "ext2"}

\* "ext3" is an account of the provider registered with the address the
\* admin login looks up.
ClaimsOf(sub) ==
  IF sub = "ext1"
  THEN [sub |-> "ext1", email |-> "visitor@example.com", first_name |-> "Visitor"]
  ELSE IF sub = "ext2"
  THEN [sub |-> "ext2", email |-> "owner@example.com",
        first_name |-> "your-replit-username"]
  ELSE [sub |-> "ext3", email |-> "admin@modernagro.com", first_name |-> "Mallory"]

\* adminUsers of GET /api/auth/user.
adminUsers == {"your-replit-username"}

NowSec == now \div 1000

getUser(id) == IF id \in DOMAIN users THEN users[id] ELSE [id |-> Null]

\* getUserByUsername: the user whose email is `${username}@modernagro.com`.
\* username is always "admin" here, so the email is fixed.
UsersByEmail(email) == {id \in DOMAIN users : users[id].email = email}

\* MemStorage.upsertUser
MemUpsertUser(userData) ==
  LET existing == getUser(userData.id)
  IN  Put(users, userData.id,
          [id |-> userData.id,
           email |-> OrNull(userData.email),
           firstName |-> OrNull(userData.firstName),
           isAdmin |-> IF existing.id # Null /\ Truthy(existing.isAdmin)
                       THEN existing.isAdmin ELSE F])

\* DatabaseStorage.upsertUser: users.email is UNIQUE, so the statement fails when
\* another row already owns the email.
DbUpsertUserFails(userData) ==
  /\ userData.email \notin {Null, Undefined}
  /\ \E id \in DOMAIN users : id # userData.id /\ users[id].email = userData.email

DbUpsertUser(userData) ==
  LET existing == getUser(userData.id)
  IN  Put(users, userData.id,
          [id |-> userData.id,
           email |-> IF userData.email = Undefined THEN Null ELSE userData.email,
           firstName |-> IF userData.firstName = Undefined THEN Null
                         ELSE userData.firstName,
           isAdmin |-> IF existing.id # Null THEN existing.isAdmin ELSE F])

upsertUserFails(userData) == backend = "db" /\ DbUpsertUserFails(userData)

upsertUser(userData) ==
  IF backend = "mem" THEN MemUpsertUser(userData) ELSE DbUpsertUser(userData)

\* What client.refreshTokenGrant answers: failure (NoGrant), or new tokens
\* [ok |-> TRUE, exp |-> ..., refresh_token |-> ...].
NoGrant == [ok |-> FALSE, exp |-> 0, refresh_token |-> FALSE]

\* updateUserSession
updateUserSession(exp, refresh_token, sub) ==
  [sub |-> sub, expires_at |-> exp, refresh_token |-> refresh_token]

\* isAuthenticated reaches the refresh-token grant.
GateRefreshes(s) ==
  /\ ~Truthy(s.userId)
  /\ s.passport.sub # Null
  /\ s.passport.expires_at # 0
  /\ NowSec > s.passport.expires_at
  /\ s.passport.refresh_token

\* A gate whose req.isAuthenticated() test is inverted.
MutGateInverted(s, grant) ==
  IF Truthy(s.userId) THEN TRUE
  ELSE IF s.passport.sub = Null THEN TRUE
  ELSE IF s.passport.expires_at = 0 THEN FALSE
  ELSE IF NowSec <= s.passport.expires_at THEN TRUE
  ELSE IF ~s.passport.refresh_token THEN FALSE
  ELSE grant.ok

\* isAuthenticated: TRUE when it calls next(), FALSE when it answers 401.
isAuthenticated(s, grant) ==
  IF Truthy(s.userId) THEN TRUE
  ELSE IF s.passport.sub = Null THEN FALSE
  ELSE IF s.passport.expires_at = 0 THEN FALSE
  ELSE IF NowSec <= s.passport.expires_at THEN TRUE
  ELSE IF ~s.passport.refresh_token THEN FALSE
  ELSE grant.ok

\* The session after isAuthenticated ran (a successful refresh rewrites req.user).
GateSession(s, grant) ==
  IF GateRefreshes(s) /\ grant.ok
  THEN [s EXCEPT !.passport =
          updateUserSession(grant.exp, grant.refresh_token, s.passport.sub)]
  ELSE s

\* The allow-list test the claims speak of (the one GET /api/auth/user applies).
AllowListed(sub) ==
  /\ sub \in DOMAIN users
  /\ \/ users[sub].email \in adminUsers
     \/ users[sub].firstName \in adminUsers

Unauthorized(route, sid) == Respond(route, sid, 401, "message", 0)

\* A login that tests the username and not the password.
MutLoginAnyPassword(sid, username, password) ==
  /\ IF username = "admin"
     THEN /\ users' = IF UsersByEmail("admin@modernagro.com") = {}
                      THEN MemUpsertUser([id |-> "admin", email |-> "admin@modernagro.com",
                                          firstName |-> "Admin"])
                      ELSE users
          /\ sessions' = [sessions EXCEPT ![sid].userId = "admin", ![sid].isAdmin = T]
          /\ res' = Response("POST /api/auth/admin-login", sid, 200, "identity",
                             0, "admin", T, Null)
     ELSE /\ res' = Respond("POST /api/auth/admin-login", sid, 401, "message", 0)
          /\ UNCHANGED authVars
  /\ UNCHANGED <<page, backend, now, productVars, orderVars, blogVars, contactVars>>

\* POST /api/auth/admin-login
AdminLogin(sid, username, password) ==
  LET adminData == [id |-> "admin", email |-> "admin@modernagro.com",
                    firstName |-> "Admin"]
      found == UsersByEmail("admin@modernagro.com")
  IN
  /\ IF username = "admin" /\ password = "admin123"
     THEN IF found = {} /\ upsertUserFails(adminData)
          THEN /\ res' = Respond("POST /api/auth/admin-login", sid, 500, "message", 0)
               /\ UNCHANGED authVars
          ELSE /\ users' = IF found = {} THEN upsertUser(adminData) ELSE users
               /\ sessions' = [sessions EXCEPT ![sid].userId = "admin",
                                               ![sid].isAdmin = T]
               /\ res' = Response("POST /api/auth/admin-login", sid, 200, "identity",
                                  0, IF found = {} THEN "admin"
                                     ELSE CHOOSE id \in found : TRUE, T, Null)
     ELSE /\ res' = Respond("POST /api/auth/admin-login", sid, 401, "message", 0)
          /\ UNCHANGED authVars
  /\ UNCHANGED <<page, backend, now, productVars, orderVars, blogVars, contactVars>>

\* A logout that clears the admin flag and keeps the rest of the session.
MutLogoutKeepsIdentity(sid) ==
  /\ sessions' = [sessions EXCEPT ![sid].isAdmin = F]
  /\ res' = Respond("POST /api/auth/logout", sid, 200, "message", 0)
  /\ UNCHANGED <<page, backend, now, users, productVars, orderVars, blogVars, contactVars>>

\* POST /api/auth/logout: req.session.destroy()
Logout(sid) ==
  /\ sessions' = [sessions EXCEPT ![sid] = EmptySession]
  /\ res' = Respond("POST /api/auth/logout", sid, 200, "message", 0)
  /\ UNCHANGED <<page, backend, now, users, productVars, orderVars, blogVars, contactVars>>

\* GET /api/callback, the provider having authenticated `sub`: verify() builds the
\* user from the tokens, upserts it, and passport stores it in the session.
\* regenerate: whether passport's login starts a new session (it does from 0.6 on).
ExternalCallback(sid, sub, exp, refresh_token, regenerate) ==
  LET c == ClaimsOf(sub)
      userData == [id |-> c.sub, email |-> c.email, firstName |-> c.first_name]
      base == IF regenerate THEN EmptySession ELSE sessions[sid]
  IN
  /\ IF upsertUserFails(userData)
     THEN /\ res' = Respond("GET /api/callback", sid, 500, "message", 0)
          /\ UNCHANGED authVars
     ELSE /\ users' = upsertUser(userData)
          /\ sessions' = [sessions EXCEPT ![sid] =
                [base EXCEPT !.passport = updateUserSession(exp, refresh_token, sub)]]
          /\ res' = Respond("GET /api/callback", sid, 302, "none", 0)
  /\ UNCHANGED <<page, backend, now, productVars, orderVars, blogVars, contactVars>>

\* GET /api/logout: req.logout()
ExternalLogout(sid, regenerate) ==
  /\ sessions' = [sessions EXCEPT ![sid] =
        IF regenerate THEN EmptySession
        ELSE [sessions[sid] EXCEPT !.passport = NoPassport]]
  /\ res' = Respond("GET /api/logout", sid, 302, "none", 0)
  /\ UNCHANGED <<page, backend, now, users, productVars, orderVars, blogVars, contactVars>>

\* A handler that asks the external identity first and the session second.
MutAuthUserExternalFirst(sid) ==
  LET s == sessions[sid]
      su == getUser(s.userId)
      eu == getUser(s.passport.sub)
  IN
  /\ res' =
       IF s.passport.sub # Null /\ eu.id # Null
       THEN Response("GET /api/auth/user", sid, 200, "identity", 0, eu.id,
                     IF AllowListed(eu.id) THEN T ELSE F, Null)
       ELSE IF Truthy(s.userId) /\ su.id # Null
       THEN Response("GET /api/auth/user", sid, 200, "identity", 0, su.id,
                     IF Truthy(s.isAdmin) THEN s.isAdmin ELSE F, Null)
       ELSE Unauthorized("GET /api/auth/user", sid)
  /\ UNCHANGED <<page, backend, now, authVars, productVars, orderVars, blogVars, contactVars>>

\* GET /api/auth/user
GetAuthUser(sid) ==
  LET s == sessions[sid]
      su == getUser(s.userId)
      eu == getUser(s.passport.sub)
  IN
  /\ res' =
       IF Truthy(s.userId) /\ su.id # Null
       THEN Response("GET /api/auth/user", sid, 200, "identity", 0, su.id,
                     IF Truthy(s.isAdmin) THEN s.isAdmin ELSE F, Null)
       ELSE IF s.passport.sub # Null /\ eu.id # Null
       THEN Response("GET /api/auth/user", sid, 200, "identity", 0, eu.id,
                     IF AllowListed(eu.id) THEN T ELSE F, Null)
       ELSE Unauthorized("GET /api/auth/user", sid)
  /\ UNCHANGED <<page, backend, now, authVars, productVars, orderVars, blogVars, contactVars>>

\* Date.now() advances by a millisecond.
TickMs ==
  /\ now % 1000 < MaxClock
  /\ now' = now + 1
  /\ UNCHANGED <<page, backend, authVars, productVars, orderVars, blogVars, contactVars, res>>

\* Date.now() advances to the next second.
TickSec ==
  /\ NowSec < MaxSeconds
  /\ now' = (NowSec + 1) * 1000
  /\ UNCHANGED <<page, backend, authVars, productVars, orderVars, blogVars, contactVars, res>>

\* ------------------------------------------------------------------ orders
\* The five values of Order.status.
Statuses == {"pending", "processing", "shipped", "delivered", "cancelled"}

\* insertOrderSchema (createInsertSchema(orders) without id, orderNumber,
\* createdAt, updatedAt): the NOT NULL columns without a default are required
\* strings; status stays in the schema, optional and nullable, any string.
ValidOrder(o) ==
  /\ o.customerName \notin {Undefined, Null}
  /\ o.customerPhone \notin {Undefined, Null}
  /\ o.customerAddress \notin {Undefined, Null}
  /\ o.totalAmount # <<>>

\* insertOrderItemSchema (createInsertSchema(orderItems) without id): quantity is
\* a required integer, pricePerUnit and totalPrice required strings, orderId and
\* productId optional.  No bound on quantity, no relation between the prices.
ValidItem(i) ==
  /\ i.quantity # <<>>
  /\ i.pricePerUnit # <<>>
  /\ i.totalPrice # <<>>

\* z.array(insertOrderItemSchema).parse(items): an array, each element valid.
\* No minimum length.
ValidItems(isArray, items) ==
  /\ isArray
  /\ \A k \in 1..Len(items) : ValidItem(items[k])

\* `ORD-${Date.now()}-${Math.floor(Math.random() * 1000)}`
OrderNumber(ms, rnd) == [ms |-> ms, rnd |-> rnd]

OrderNumberTaken(n) == \E id \in DOMAIN orders : orders[id].orderNumber = n

\* MemStorage.createOrder: the stored status.
MemOrderStatus(o) == OrNull(o.status)

\* DatabaseStorage.createOrder: the stored status (column default 'pending' when
\* the value is left out; an explicit null is stored as NULL).
DbOrderStatus(o) == IF o.status = Undefined THEN "pending" ELSE o.status

NewOrder(id, o, n, status) ==
  [id |-> id, orderNumber |-> n, customerName |-> o.customerName,
   totalAmount |-> o.totalAmount[1], status |-> status, createdAt |-> now]

\* MemStorage.createOrder: items.map((item, index) => ...)
MemOrderItems(id, items) ==
  {[id |-> k, orderId |-> id, productId |-> IntOrNull(items[k].productId),
    quantity |-> items[k].quantity[1], pricePerUnit |-> items[k].pricePerUnit[1],
    totalPrice |-> items[k].totalPrice[1]] : k \in 1..Len(items)}

\* DatabaseStorage.createOrder: items.map(item => ({...item, orderId: newOrder.id}))
\* with ids drawn from the sequence.
DbOrderItems(id, items) ==
  {[id |-> nextOrderItemId + k - 1, orderId |-> id, productId |-> items[k].productId,
    quantity |-> items[k].quantity[1], pricePerUnit |-> items[k].pricePerUnit[1],
    totalPrice |-> items[k].totalPrice[1]] : k \in 1..Len(items)}

\* db.insert(orderItems).values(rows) fails: drizzle refuses an empty values()
\* list, and order_items.product_id REFERENCES products(id).
DbItemsInsertFails(items) ==
  \/ items = <<>>
  \/ \E k \in 1..Len(items) :
       items[k].productId # <<>> /\ items[k].productId[1] \notin DOMAIN products

ItemsOf(id) == {r \in orderItems : r.orderId = id}

\* getOrder(id): the order with its items.
getOrder(id) == [order |-> orders[id], items |-> ItemsOf(id)]

\* getAllOrders(): every order with its items (as a set; the code sorts them
\* newest first).
getAllOrders == {getOrder(id) : id \in DOMAIN orders}

\* The sum of totalPrice over the stored items of an order.
RECURSIVE SumTotalPrice(_)
SumTotalPrice(rows) ==
  IF rows = {} THEN 0
  ELSE LET r == CHOOSE x \in rows : TRUE
       IN  r.totalPrice + SumTotalPrice(rows \ {r})

\* A handler that stores the order header before it validates the items.
MutPostOrdersHeaderFirst(sid, body, rnd) ==
  LET id == nextOrderId IN
  /\ nextOrderId <= MaxOrders
  /\ ValidOrder(body.order)
  /\ ~ValidItems(body.isArray, body.items)
  /\ nextOrderId' = id + 1
  /\ orders' = Put(orders, id, NewOrder(id, body.order, OrderNumber(now, rnd),
                      IF backend = "mem" THEN MemOrderStatus(body.order)
                      ELSE DbOrderStatus(body.order)))
  /\ placed' = Put(placed, id, <<>>)
  /\ res' = Respond("POST /api/orders", sid, 400, "message", 0)
  /\ UNCHANGED <<page, backend, now, authVars, productVars, orderItems, nextOrderItemId,
                 inflight, blogVars, contactVars>>

\* A MemStorage.createOrder that takes the ordered quantities off the stock.
MutPostOrdersTakesStock(sid, body, rnd) ==
  LET id == nextOrderId
      taken(pid) == SumSeq([k \in 1..Len(body.items) |->
                      IF body.items[k].productId = <<pid>>
                      THEN body.items[k].quantity[1] ELSE 0])
  IN
  /\ nextOrderId <= MaxOrders
  /\ backend = "mem"
  /\ ValidOrder(body.order) /\ ValidItems(body.isArray, body.items)
  /\ nextOrderId' = id + 1
  /\ orders' = Put(orders, id, NewOrder(id, body.order, OrderNumber(now, rnd),
                                        MemOrderStatus(body.order)))
  /\ orderItems' = orderItems \cup MemOrderItems(id, body.items)
  /\ placed' = Put(placed, id, body.items)
  /\ products' = [pid \in DOMAIN products |->
                   IF products[pid].stock = <<>> THEN products[pid]
                   ELSE [products[pid] EXCEPT !.stock = <<@[1] - taken(pid)>>]]
  /\ res' = Respond("POST /api/orders", sid, 200, "data", id)
  /\ UNCHANGED <<page, backend, now, authVars, nextProductId, nextOrderItemId, inflight,
                 blogVars, contactVars>>

\* POST /api/orders.  With MemStorage the handler runs to its end.  With
\* DatabaseStorage createOrder awaits two statements: this is the handler up to
\* the first one (the header insert); DbInsertOrderItems is the rest.
PostOrders(sid, body, rnd) ==
  LET id == nextOrderId
      n == OrderNumber(now, rnd)
  IN
  /\ nextOrderId <= MaxOrders
  /\ IF ~ValidOrder(body.order) \/ ~ValidItems(body.isArray, body.items)
     THEN /\ res' = Respond("POST /api/orders", sid, 400, "message", 0)
          /\ UNCHANGED orderVars
     ELSE IF backend = "mem"
     THEN /\ nextOrderId' = id + 1
          /\ orders' = Put(orders, id, NewOrder(id, body.order, n, MemOrderStatus(body.order)))
          /\ orderItems' = orderItems \cup MemOrderItems(id, body.items)
          /\ placed' = Put(placed, id, body.items)
          /\ res' = Respond("POST /api/orders", sid, 200, "data", id)
          /\ UNCHANGED <<nextOrderItemId, inflight>>
     ELSE IF OrderNumberTaken(n)
     THEN \* orders.order_number is UNIQUE: the insert throws, the sequence moved
          /\ nextOrderId' = id + 1
          /\ res' = Respond("POST /api/orders", sid, 500, "message", 0)
          /\ UNCHANGED <<orders, orderItems, nextOrderItemId, inflight, placed>>
     ELSE /\ Cardinality(inflight) < MaxInflight
          /\ nextOrderId' = id + 1
          /\ orders' = Put(orders, id, NewOrder(id, body.order, n, DbOrderStatus(body.order)))
          /\ inflight' = inflight \cup {[sid |-> sid, id |-> id, items |-> body.items]}
          /\ placed' = Put(placed, id, body.items)
          /\ res' = Respond("POST /api/orders", sid, 0, "none", id)
          /\ UNCHANGED <<orderItems, nextOrderItemId>>
  /\ UNCHANGED <<page, backend, now, authVars, productVars, blogVars, contactVars>>

\* DatabaseStorage.createOrder, second statement, and the handler's answer.
DbInsertOrderItems(f) ==
  /\ f \in inflight
  /\ inflight' = inflight \ {f}
  /\ IF DbItemsInsertFails(f.items)
     THEN /\ res' = Respond("POST /api/orders", f.sid, 500, "message", f.id)
          /\ UNCHANGED <<orderItems, nextOrderItemId>>
     ELSE /\ orderItems' = orderItems \cup DbOrderItems(f.id, f.items)
          /\ nextOrderItemId' = nextOrderItemId + Len(f.items)
          /\ res' = Respond("POST /api/orders", f.sid, 200, "data", f.id)
  /\ UNCHANGED <<page, backend, now, authVars, productVars, orders, nextOrderId, placed,
                 blogVars, contactVars>>

\* An updateOrderStatus that refuses to move an order backwards.
MutForwardOnlyStatus(id, status) ==
  IF orders[id].status \in {"delivered", "cancelled"} THEN orders
  ELSE [orders EXCEPT ![id].status = status]

\* MemStorage.updateOrderStatus / DatabaseStorage.updateOrderStatus: the orders
\* afterwards.  drizzle's set() skips a field whose value is undefined.
MemUpdateOrderStatus(id, status) == [orders EXCEPT ![id].status = status]

DbUpdateOrderStatus(id, status) ==
  IF id \in DOMAIN orders /\ status # Undefined
  THEN [orders EXCEPT ![id].status = status]
  ELSE orders

\* PUT /api/admin/orders/:id/status
PutOrderStatus(sid, id, status, grant) ==
  LET route == "PUT /api/admin/orders/:id/status"
      before == IF id \in DOMAIN orders THEN orders[id].status ELSE Null
  IN
  /\ sessions' = [sessions EXCEPT ![sid] = GateSession(sessions[sid], grant)]
  /\ IF ~isAuthenticated(sessions[sid], grant)
     THEN /\ res' = Unauthorized(route, sid)
          /\ UNCHANGED orders
     ELSE IF backend = "mem"
     THEN IF id \notin DOMAIN orders
          THEN /\ res' = Respond(route, sid, 500, "message", id)
               /\ UNCHANGED orders
          ELSE /\ orders' = MemUpdateOrderStatus(id, status)
               /\ res' = Response(route, sid, 200, "data", id, Null, Null, before)
     ELSE /\ orders' = DbUpdateOrderStatus(id, status)
          /\ res' = IF id \in DOMAIN orders
                    THEN Response(route, sid, 200, "data", id, Null, Null, before)
                    ELSE Respond(route, sid, 200, "none", id)
  /\ UNCHANGED <<page, backend, now, users, productVars, orderItems, nextOrderId,
                 nextOrderItemId, inflight, placed, blogVars, contactVars>>

\* GET /api/admin/orders: res.json(await storage.getAllOrders()).  The handler
\* runs between the two statements of a createOrder call like any other step.
GetAdminOrders(sid, grant) ==
  /\ sessions' = [sessions EXCEPT ![sid] = GateSession(sessions[sid], grant)]
  /\ res' = IF isAuthenticated(sessions[sid], grant)
            THEN Response("GET /api/admin/orders", sid, 200, "data", 0, Null, Null,
                          getAllOrders)
            ELSE Unauthorized("GET /api/admin/orders", sid)
  /\ UNCHANGED <<page, backend, now, users, productVars, orderVars, blogVars, contactVars>>

\* ---------------------------------------------------------------- products
UpperChars == <<"A","B","C","D","E","F","G","H","I","J","K","L","M",
                "N","O","P","Q","R","S","T","U","V","W","X","Y","Z">>

LowerChars == <<"a","b","c","d","e","f","g","h","i","j","k","l","m",
                "n","o","p","q","r","s","t","u","v","w","x","y","z">>

\* String.prototype.toLowerCase, one character and a whole string.
LowerOf ==
  [c \in {UpperChars[k] : k \in 1..26} |->
     LowerChars[CHOOSE k \in 1..26 : UpperChars[k] = c]]

LowerChar(c) == IF c \in DOMAIN LowerOf THEN LowerOf[c] ELSE c

toLowerCase(str) == [k \in 1..Len(str) |-> LowerChar(str[k])]

\* String.prototype.includes
includes(str, part) ==
  \E k \in 0..(Len(str) - Len(part)) : SubSeq(str, k + 1, k + Len(part)) = part

\* SQL LIKE: % matches any string, _ any one character, the rest itself
\* (case-sensitively).
RECURSIVE like(_, _)
like(str, pattern) ==
  IF pattern = <<>> THEN str = <<>>
  ELSE IF Head(pattern) = "%"
  THEN like(str, Tail(pattern)) \/ (str # <<>> /\ like(Tail(str), pattern))
  ELSE /\ str # <<>>
       /\ Head(pattern) = "_" \/ Head(pattern) = Head(str)
       /\ like(Tail(str), Tail(pattern))

\* An optional integer of a request body: left out, null, or a number.
Absent == [k |-> "undefined", v |-> 0]
NullInt == [k |-> "null", v |-> 0]
Val(n) == [k |-> "value", v |-> n]

\* insertProductSchema (createInsertSchema(products) without id, createdAt,
\* updatedAt): name, price, category required; the rest optional and nullable.
\* wellTyped is FALSE when a field carries a value of the wrong JSON type.
ValidProduct(p) ==
  /\ p.wellTyped
  /\ p.name # <<>>
  /\ p.price # <<>>
  /\ p.category \notin {Undefined, Null}

\* insertProductSchema.partial(): every field optional.
ValidPartialProduct(p) ==
  /\ p.wellTyped
  /\ p.category # Null

\* MemStorage.createProduct
MemNewProduct(id, p) ==
  [id |-> id, name |-> p.name[1], price |-> p.price[1], category |-> p.category,
   stock |-> IF p.stock.k = "value" /\ p.stock.v # 0 THEN <<p.stock.v>> ELSE <<>>,
   isActive |-> OrNull(p.isActive),
   createdAt |-> now]

\* DatabaseStorage.createProduct: stock DEFAULT 0, is_active DEFAULT true for
\* the values left out; an explicit null is stored.
DbNewProduct(id, p) ==
  [id |-> id, name |-> p.name[1], price |-> p.price[1], category |-> p.category,
   stock |-> IF p.stock.k = "value" THEN <<p.stock.v>>
             ELSE IF p.stock.k = "undefined" THEN <<0>> ELSE <<>>,
   isActive |-> IF p.isActive = Undefined THEN T ELSE p.isActive,
   createdAt |-> now]

\* {...existingProduct, ...product} and set({...product}): the fields the body
\* carries replace the stored ones.
MergeProduct(old, p) ==
  [id |-> old.id,
   name |-> IF p.name = <<>> THEN old.name ELSE p.name[1],
   price |-> IF p.price = <<>> THEN old.price ELSE p.price[1],
   category |-> IF p.category = Undefined THEN old.category ELSE p.category,
   stock |-> IF p.stock.k = "undefined" THEN old.stock
             ELSE IF p.stock.k = "null" THEN <<>> ELSE <<p.stock.v>>,
   isActive |-> IF p.isActive = Undefined THEN old.isActive ELSE p.isActive,
   createdAt |-> old.createdAt]

\* MemStorage.getProduct / DatabaseStorage.getProduct: the row, whatever its
\* isActive; [id |-> 0] stands for undefined (ids start at 1).
getProduct(id) == IF id \in DOMAIN products THEN products[id] ELSE [id |-> 0]

\* A deleteProduct that removes the row.
MutHardDelete(id) == Remove(products, id)

\* MemStorage.deleteProduct / DatabaseStorage.deleteProduct: the products
\* afterwards.
deleteProduct(id) ==
  IF id \in DOMAIN products THEN [products EXCEPT ![id].isActive = F] ELSE products

\* A filter that treats an unset isActive as active.
MutActiveUnlessFalse(p) == p.isActive # F

\* The filter both getAllProducts apply first.
IsActive(p) == p.isActive = T

\* MemStorage.getAllProducts: the filters.
MemMatches(p, search, category) ==
  /\ IsActive(p)
  /\ search # <<>> => includes(toLowerCase(p.name), toLowerCase(search))
  /\ (Truthy(category) /\ category # "All Categories") => p.category = category

\* DatabaseStorage.getAllProducts: the WHERE clause.
DbMatches(p, search, category) ==
  /\ IsActive(p)
  /\ search # <<>> => like(p.name, <<"%">> \o search \o <<"%">>)
  /\ (Truthy(category) /\ category # "All Categories") => p.category = category

\* Array.prototype.sort by createdAt descending: stable, so equal dates keep
\* the Map's insertion order (ascending id).
RECURSIVE SortNewestFirst(_)
SortNewestFirst(ids) ==
  IF ids = {} THEN <<>>
  ELSE LET first == CHOOSE i \in ids : \A j \in ids :
                      \/ products[i].createdAt > products[j].createdAt
                      \/ products[i].createdAt = products[j].createdAt /\ i <= j
       IN  <<products[first]>> \o SortNewestFirst(ids \ {first})

\* MemStorage.getAllProducts(search, category): the list returned.
MemGetAllProducts(search, category) ==
  SortNewestFirst({id \in DOMAIN products : MemMatches(products[id], search, category)})

\* DatabaseStorage.getAllProducts(search, category): the rows selected (ORDER BY
\* created_at DESC arranges them; rows of equal created_at come in any order).
DbGetAllProducts(search, category) ==
  {products[id] : id \in {i \in DOMAIN products : DbMatches(products[i], search, category)}}

\* The products GET /api/products?search=&category= returns, as a set.
Listed(search, category) ==
  IF backend = "mem"
  THEN LET l == MemGetAllProducts(search, category) IN {l[k] : k \in 1..Len(l)}
  ELSE DbGetAllProducts(search, category)

\* The first id a created product gets: MemStorage seeds six products in its
\* constructor, the database tables start empty.
FirstProductId == IF backend = "mem" THEN 7 ELSE 1

\* POST /api/admin/products
PostAdminProduct(sid, p, grant) ==
  LET route == "POST /api/admin/products"
      id == nextProductId
  IN
  /\ nextProductId < FirstProductId + MaxProducts
  /\ sessions' = [sessions EXCEPT ![sid] = GateSession(sessions[sid], grant)]
  /\ IF ~isAuthenticated(sessions[sid], grant)
     THEN /\ res' = Unauthorized(route, sid)
          /\ UNCHANGED productVars
     ELSE IF ~ValidProduct(p)
     THEN /\ res' = Respond(route, sid, 400, "message", 0)
          /\ UNCHANGED productVars
     ELSE /\ nextProductId' = id + 1
          /\ products' = Put(products, id,
               IF backend = "mem" THEN MemNewProduct(id, p) ELSE DbNewProduct(id, p))
          /\ res' = Respond(route, sid, 200, "data", id)
  /\ UNCHANGED <<page, backend, now, users, orderVars, blogVars, contactVars>>

\* PUT /api/admin/products/:id
PutAdminProduct(sid, id, p, grant) ==
  LET route == "PUT /api/admin/products/:id" IN
  /\ sessions' = [sessions EXCEPT ![sid] = GateSession(sessions[sid], grant)]
  /\ IF ~isAuthenticated(sessions[sid], grant)
     THEN /\ res' = Unauthorized(route, sid)
          /\ UNCHANGED productVars
     ELSE IF ~ValidPartialProduct(p)
     THEN /\ res' = Respond(route, sid, 400, "message", id)
          /\ UNCHANGED productVars
     ELSE IF id \notin DOMAIN products
     THEN \* MemStorage throws; DatabaseStorage updates no row and returns undefined
          /\ res' = IF backend = "mem" THEN Respond(route, sid, 500, "message", id)
                    ELSE Respond(route, sid, 200, "none", id)
          /\ UNCHANGED productVars
     ELSE /\ products' = [products EXCEPT ![id] = MergeProduct(products[id], p)]
          /\ res' = Respond(route, sid, 200, "data", id)
          /\ UNCHANGED nextProductId
  /\ UNCHANGED <<page, backend, now, users, orderVars, blogVars, contactVars>>

\* A delete that removes the product row and, with it, the line items that
\* reference it.
MutDeleteCascades(sid, id, grant) ==
  /\ isAuthenticated(sessions[sid], grant)
  /\ products' = Remove(products, id)
  /\ orderItems' = {r \in orderItems : r.productId # <<id>>}
  /\ res' = Respond("DELETE /api/admin/products/:id", sid, 200, "message", id)
  /\ UNCHANGED <<page, backend, now, authVars, nextProductId, orders, nextOrderId,
                 nextOrderItemId, inflight, placed, blogVars, contactVars>>

\* DELETE /api/admin/products/:id
DeleteAdminProduct(sid, id, grant) ==
  LET route == "DELETE /api/admin/products/:id" IN
  /\ sessions' = [sessions EXCEPT ![sid] = GateSession(sessions[sid], grant)]
  /\ IF ~isAuthenticated(sessions[sid], grant)
     THEN /\ res' = Unauthorized(route, sid)
          /\ UNCHANGED productVars
     ELSE /\ products' = deleteProduct(id)
          /\ res' = Response(route, sid, 200, "message", id, Null, Null, getProduct(id))
          /\ UNCHANGED nextProductId
  /\ UNCHANGED <<page, backend, now, users, orderVars, blogVars, contactVars>>

\* GET /api/products?search=&category=
GetProducts(sid, search, category) ==
  /\ res' = Respond("GET /api/products", sid, 200, "data", 0)
  /\ UNCHANGED <<page, backend, now, authVars, productVars, orderVars, blogVars, contactVars>>

\* GET /api/products/:id
GetProduct(sid, id) ==
  /\ res' = IF getProduct(id).id = 0
            THEN Respond("GET /api/products/:id", sid, 404, "message", id)
            ELSE Respond("GET /api/products/:id", sid, 200, "data", id)
  /\ UNCHANGED <<page, backend, now, authVars, productVars, orderVars, blogVars, contactVars>>

\* -------------------------------------------------------------- blog posts
\* insertBlogPostSchema (createInsertSchema(blogPosts) without id, createdAt,
\* updatedAt): title, content, slug required.
ValidBlogPost(b) ==
  /\ b.wellTyped
  /\ b.title \notin {Undefined, Null}
  /\ b.content \notin {Undefined, Null}
  /\ b.slug \notin {Undefined, Null}

\* insertBlogPostSchema.partial()
ValidPartialBlogPost(b) ==
  /\ b.wellTyped
  /\ b.title # Null /\ b.content # Null /\ b.slug # Null

FirstBlogPostId == IF backend = "mem" THEN 3 ELSE 1

\* MemStorage.createBlogPost
MemNewBlogPost(id, b, authorId) ==
  [id |-> id, title |-> b.title, slug |-> b.slug,
   isPublished |-> OrNull(b.isPublished), authorId |-> OrNull(authorId),
   createdAt |-> now]

\* DatabaseStorage.createBlogPost: is_published DEFAULT true.
DbNewBlogPost(id, b, authorId) ==
  [id |-> id, title |-> b.title, slug |-> b.slug,
   isPublished |-> IF b.isPublished = Undefined THEN T ELSE b.isPublished,
   authorId |-> authorId, createdAt |-> now]

SlugTaken(slug, except) ==
  \E id \in DOMAIN blogPosts \ except : blogPosts[id].slug = slug

\* The insert fails in the database: blog_posts.slug is UNIQUE and
\* blog_posts.author_id REFERENCES users(id).
DbBlogInsertFails(b, authorId) ==
  \/ SlugTaken(b.slug, {})
  \/ authorId \notin DOMAIN users

MergeBlogPost(old, b) ==
  [id |-> old.id,
   title |-> IF b.title = Undefined THEN old.title ELSE b.title,
   slug |-> IF b.slug = Undefined THEN old.slug ELSE b.slug,
   isPublished |-> IF b.isPublished = Undefined THEN old.isPublished ELSE b.isPublished,
   authorId |-> old.authorId,
   createdAt |-> old.createdAt]

\* getAllBlogPosts(published): the posts returned, as a set.
getAllBlogPosts(published) ==
  {blogPosts[id] : id \in {i \in DOMAIN blogPosts :
                             published => blogPosts[i].isPublished = T}}

\* getBlogPost(slug): the posts it can return (MemStorage: the first in the
\* Map's order, that is the least id; the database: the row of that slug).
getBlogPost(slug) ==
  LET ids == {i \in DOMAIN blogPosts : blogPosts[i].slug = slug}
  IN  {blogPosts[i] : i \in {j \in ids : \A k \in ids : j <= k}}

\* POST /api/admin/blog
PostAdminBlog(sid, b, grant) ==
  LET route == "POST /api/admin/blog"
      id == nextBlogPostId
      s == sessions[sid]
      authorId == IF Truthy(s.userId) THEN s.userId
                  ELSE IF s.passport.sub # Null THEN s.passport.sub ELSE "admin"
  IN
  /\ nextBlogPostId < FirstBlogPostId + MaxPosts
  /\ sessions' = [sessions EXCEPT ![sid] = GateSession(sessions[sid], grant)]
  /\ IF ~isAuthenticated(sessions[sid], grant)
     THEN /\ res' = Unauthorized(route, sid)
          /\ UNCHANGED blogVars
     ELSE IF ~ValidBlogPost(b)
     THEN /\ res' = Respond(route, sid, 400, "message", 0)
          /\ UNCHANGED blogVars
     ELSE IF backend = "db" /\ DbBlogInsertFails(b, authorId)
     THEN /\ nextBlogPostId' = id + 1
          /\ res' = Respond(route, sid, 500, "message", 0)
          /\ UNCHANGED blogPosts
     ELSE /\ nextBlogPostId' = id + 1
          /\ blogPosts' = Put(blogPosts, id,
               IF backend = "mem" THEN MemNewBlogPost(id, b, authorId)
               ELSE DbNewBlogPost(id, b, authorId))
          /\ res' = Respond(route, sid, 200, "data", id)
  /\ UNCHANGED <<page, backend, now, users, productVars, orderVars, contactVars>>

\* An update that takes a post down by removing its row.
MutUnpublishRemoves(sid, id, b, grant) ==
  /\ isAuthenticated(sessions[sid], grant)
  /\ id \in DOMAIN blogPosts
  /\ blogPosts' = IF b.isPublished = F THEN Remove(blogPosts, id)
                  ELSE [blogPosts EXCEPT ![id] = MergeBlogPost(blogPosts[id], b)]
  /\ res' = Respond("PUT /api/admin/blog/:id", sid, 200, "data", id)
  /\ UNCHANGED <<page, backend, now, authVars, productVars, orderVars, nextBlogPostId,
                 contactVars>>

\* PUT /api/admin/blog/:id
PutAdminBlog(sid, id, b, grant) ==
  LET route == "PUT /api/admin/blog/:id" IN
  /\ sessions' = [sessions EXCEPT ![sid] = GateSession(sessions[sid], grant)]
  /\ IF ~isAuthenticated(sessions[sid], grant)
     THEN /\ res' = Unauthorized(route, sid)
          /\ UNCHANGED blogVars
     ELSE IF ~ValidPartialBlogPost(b)
     THEN /\ res' = Respond(route, sid, 400, "message", id)
          /\ UNCHANGED blogVars
     ELSE IF id \notin DOMAIN blogPosts
     THEN /\ res' = IF backend = "mem" THEN Respond(route, sid, 500, "message", id)
                    ELSE Respond(route, sid, 200, "none", id)
          /\ UNCHANGED blogVars
     ELSE IF backend = "db" /\ b.slug # Undefined /\ SlugTaken(b.slug, {id})
     THEN /\ res' = Respond(route, sid, 500, "message", id)
          /\ UNCHANGED blogVars
     ELSE /\ blogPosts' = [blogPosts EXCEPT ![id] = MergeBlogPost(blogPosts[id], b)]
          /\ res' = Respond(route, sid, 200, "data", id)
          /\ UNCHANGED nextBlogPostId
  /\ UNCHANGED <<page, backend, now, users, productVars, orderVars, contactVars>>

\* DELETE /api/admin/blog/:id
DeleteAdminBlog(sid, id, grant) ==
  LET route == "DELETE /api/admin/blog/:id" IN
  /\ sessions' = [sessions EXCEPT ![sid] = GateSession(sessions[sid], grant)]
  /\ IF ~isAuthenticated(sessions[sid], grant)
     THEN /\ res' = Unauthorized(route, sid)
          /\ UNCHANGED blogVars
     ELSE /\ blogPosts' = Remove(blogPosts, id)
          /\ res' = Respond(route, sid, 200, "message", id)
          /\ UNCHANGED nextBlogPostId
  /\ UNCHANGED <<page, backend, now, users, productVars, orderVars, contactVars>>

\* GET /api/admin/blog
GetAdminBlog(sid, grant) ==
  /\ sessions' = [sessions EXCEPT ![sid] = GateSession(sessions[sid], grant)]
  /\ res' = IF isAuthenticated(sessions[sid], grant)
            THEN Respond("GET /api/admin/blog", sid, 200, "data", 0)
            ELSE Unauthorized("GET /api/admin/blog", sid)
  /\ UNCHANGED <<page, backend, now, users, productVars, orderVars, blogVars, contactVars>>

\* GET /api/blog: getAllBlogPosts(true)
GetBlog(sid) ==
  /\ res' = Respond("GET /api/blog", sid, 200, "data", 0)
  /\ UNCHANGED <<page, backend, now, authVars, productVars, orderVars, blogVars, contactVars>>

\* GET /api/blog/:slug: the post getBlogPost(slug) finds, 404 when it finds none.
GetBlogSlug(sid, slug) ==
  /\ res' = IF getBlogPost(slug) = {}
            THEN Respond("GET /api/blog/:slug", sid, 404, "message", 0)
            ELSE Respond("GET /api/blog/:slug", sid, 200, "data",
                         (CHOOSE b \in getBlogPost(slug) : TRUE).id)
  /\ UNCHANGED <<page, backend, now, authVars, productVars, orderVars, blogVars, contactVars>>

\* ------------------------------------------------------- contact messages
\* insertContactMessageSchema: name, email, message required.
ValidContactMessage(m) ==
  /\ m.name \notin {Undefined, Null}
  /\ m.email \notin {Undefined, Null}
  /\ m.message \notin {Undefined, Null}

\* POST /api/contact
PostContact(sid, m) ==
  LET id == nextContactId IN
  /\ nextContactId <= MaxMessages
  /\ IF ~ValidContactMessage(m)
     THEN /\ res' = Respond("POST /api/contact", sid, 400, "message", 0)
          /\ UNCHANGED contactVars
     ELSE /\ nextContactId' = id + 1
          /\ contactMessages' = Put(contactMessages, id,
               [id |-> id, name |-> m.name, email |-> m.email,
                message |-> m.message, isRead |-> F, createdAt |-> now])
          /\ res' = Respond("POST /api/contact", sid, 200, "data", id)
  /\ UNCHANGED <<page, backend, now, authVars, productVars, orderVars, blogVars>>

\* GET /api/admin/contact
GetAdminContact(sid, grant) ==
  /\ sessions' = [sessions EXCEPT ![sid] = GateSession(sessions[sid], grant)]
  /\ res' = IF isAuthenticated(sessions[sid], grant)
            THEN Respond("GET /api/admin/contact", sid, 200, "data", 0)
            ELSE Unauthorized("GET /api/admin/contact", sid)
  /\ UNCHANGED <<page, backend, now, users, productVars, orderVars, blogVars, contactVars>>

\* getAllOrders() as the list the handler reduces: newest first, orders of one
\* instant in insertion order.
RECURSIVE OrdersNewestFirst(_)
OrdersNewestFirst(ids) ==
  IF ids = {} THEN <<>>
  ELSE LET first == CHOOSE i \in ids : \A j \in ids :
                      \/ orders[i].createdAt > orders[j].createdAt
                      \/ orders[i].createdAt = orders[j].createdAt /\ i <= j
       IN  <<orders[first]>> \o OrdersNewestFirst(ids \ {first})

\* Number.prototype.toFixed(2) of an amount held in cents: the digits before
\* and after the decimal point.
toFixed2(cents) == [whole |-> cents \div 100, frac |-> cents % 100]

\* A handler that leaves cancelled orders out of the revenue.
MutStatsSkipCancelled ==
  LET all == OrdersNewestFirst(DOMAIN orders)
      kept == SelectSeq(all, LAMBDA o : o.status # "cancelled")
  IN  [totalProducts |-> Cardinality(Listed(<<>>, Undefined)),
       totalOrders |-> Len(all),
       totalRevenue |-> toFixed2(SumSeq([k \in 1..Len(kept) |-> kept[k].totalAmount])),
       totalBlogPosts |-> Cardinality(getAllBlogPosts(FALSE))]

\* A handler that counts every stored product.
MutStatsCountsAll ==
  LET all == OrdersNewestFirst(DOMAIN orders)
  IN  [totalProducts |-> Cardinality(DOMAIN products),
       totalOrders |-> Len(all),
       totalRevenue |-> toFixed2(SumSeq([k \in 1..Len(all) |-> all[k].totalAmount])),
       totalBlogPosts |-> Cardinality(getAllBlogPosts(FALSE))]

\* The body of GET /api/admin/stats: products = getAllProducts(), orders =
\* getAllOrders(), blogPosts = getAllBlogPosts(false); totalRevenue is
\* orders.reduce((sum, order) => sum + parseFloat(order.totalAmount), 0).toFixed(2).
\* A totalAmount "4.99" is held as 499, so parseFloat gives the amount in cents.
Stats ==
  LET all == OrdersNewestFirst(DOMAIN orders)
  IN  [totalProducts |-> Cardinality(Listed(<<>>, Undefined)),
       totalOrders |-> Len(all),
       totalRevenue |-> toFixed2(SumSeq([k \in 1..Len(all) |-> all[k].totalAmount])),
       totalBlogPosts |-> Cardinality(getAllBlogPosts(FALSE))]

\* GET /api/admin/stats
GetAdminStats(sid, grant) ==
  /\ sessions' = [sessions EXCEPT ![sid] = GateSession(sessions[sid], grant)]
  /\ res' = IF isAuthenticated(sessions[sid], grant)
            THEN [Respond("GET /api/admin/stats", sid, 200, "data", 0)
                    EXCEPT !.stats = Stats]
            ELSE Unauthorized("GET /api/admin/stats", sid)
  /\ UNCHANGED <<page, backend, now, users, productVars, orderVars, blogVars, contactVars>>

\* ------------------------------------------------------ the checkout page
\* The browser of one customer (session "s2").  items is the cart of useCart():
\* pairs of a product and a quantity.  orderComplete and orderNumber are the
\* page's useState values, mutation the status of createOrderMutation.  step
\* counts the statements of onSuccess already run: React renders the page
\* after each state update it does not batch, but the customer's clicks wait
\* until the handler has returned (step = 0).  request is the body sent,
\* ticket the id the server gives the order of that request.
ClosedPage ==
  [location |-> "/shop", items |-> <<>>, orderComplete |-> FALSE,
   orderNumber |-> Null, mutation |-> "idle", step |-> 0,
   request |-> Null, ticket |-> 0]

\* The cart lines a ProductCard adds: addItem(product, 1) and one more of it.
CartLine(productId, quantity, price) ==
  [productId |-> productId, quantity |-> quantity, price |-> price]

CartLines == {CartLine(1, 2, 699), CartLine(2, 1, 499)}

\* getTotalPrice(): the sum of price times quantity over the cart.
getTotalPrice(items) ==
  SumSeq([k \in 1..Len(items) |-> items[k].price * items[k].quantity])

\* mutationFn: the body of POST /api/orders built from the form and the cart.
\* The form passed checkoutSchema, so the customer fields are filled.
CheckoutBody(items) ==
  [order |-> [customerName |-> "Ann", customerPhone |-> "555-0100",
              customerAddress |-> "1 Farm Road",
              totalAmount |-> <<getTotalPrice(items)>>, status |-> Undefined],
   isArray |-> TRUE,
   items |-> [k \in 1..Len(items) |->
                [productId |-> <<items[k].productId>>,
                 quantity |-> <<items[k].quantity>>,
                 pricePerUnit |-> <<items[k].price>>,
                 totalPrice |-> <<items[k].price * items[k].quantity>>]]]

\* What CheckoutPage renders: nothing, after setLocation("/cart"), when the cart
\* is empty and no order is complete; the confirmation when orderComplete; the
\* form otherwise.
View ==
  IF page.items = <<>> /\ ~page.orderComplete THEN "redirect"
  ELSE IF page.orderComplete THEN "confirmation"
  ELSE "form"

\* The server answered the request the page is waiting for.
Answered ==
  /\ page.mutation = "pending"
  /\ nextOrderId > page.ticket
  /\ \A f \in inflight : f.id # page.ticket
  /\ res.route = "POST /api/orders"

\* addItem on a shop page, for a product not yet in the cart.
AddItem(line) ==
  /\ page.step = 0
  /\ page.location # "/checkout"
  /\ \A k \in 1..Len(page.items) : page.items[k].productId # line.productId
  /\ page' = [page EXCEPT !.items = Append(@, line)]
  /\ UNCHANGED <<backend, now, authVars, productVars, orderVars, blogVars,
                 contactVars, res>>

\* The customer opens /checkout: CheckoutPage mounts with its initial state.
OpenCheckout ==
  /\ page.step = 0
  /\ page.location # "/checkout"
  /\ page' = [page EXCEPT !.location = "/checkout", !.orderComplete = FALSE,
                          !.orderNumber = Null, !.mutation = "idle", !.step = 0]
  /\ UNCHANGED <<backend, now, authVars, productVars, orderVars, blogVars,
                 contactVars, res>>

\* if (items.length === 0 && !orderComplete) { setLocation("/cart"); return null; }
RedirectToCart ==
  /\ page.location = "/checkout"
  /\ View = "redirect"
  /\ page' = [page EXCEPT !.location = "/cart"]
  /\ UNCHANGED <<backend, now, authVars, productVars, orderVars, blogVars,
                 contactVars, res>>

\* onSubmit: createOrderMutation.mutate(data).  The button is disabled while
\* the mutation is pending; the form is there only when View is "form".
SubmitOrder ==
  /\ page.step = 0
  /\ page.location = "/checkout"
  /\ View = "form"
  /\ page.mutation # "pending"
  /\ nextOrderId <= MaxOrders
  /\ page' = [page EXCEPT !.mutation = "pending",
                          !.request = CheckoutBody(page.items),
                          !.ticket = nextOrderId]
  /\ UNCHANGED <<backend, now, authVars, productVars, orderVars, blogVars,
                 contactVars, res>>

\* The request does not reach the server: fetch rejects, onError runs.
NetworkFails ==
  /\ page.mutation = "pending"
  /\ nextOrderId = page.ticket
  /\ page' = [page EXCEPT !.mutation = "error"]
  /\ UNCHANGED <<backend, now, authVars, productVars, orderVars, blogVars,
                 contactVars, res>>

\* An onError that empties the cart.
MutErrorClearsCart ==
  /\ Answered
  /\ res.status # 200
  /\ page' = [page EXCEPT !.mutation = "error", !.items = <<>>]
  /\ UNCHANGED <<backend, now, authVars, productVars, orderVars, blogVars,
                 contactVars, res>>

\* onError: the answer was not a success; a toast, nothing else.
CheckoutError ==
  /\ Answered
  /\ res.status # 200
  /\ page' = [page EXCEPT !.mutation = "error"]
  /\ UNCHANGED <<backend, now, authVars, productVars, orderVars, blogVars,
                 contactVars, res>>

\* onSuccess, first statement: setOrderNumber(data.orderNumber), data being
\* the order the server answered with.
CheckoutSuccess ==
  /\ Answered
  /\ res.status = 200
  /\ page' = [page EXCEPT !.mutation = "success", !.step = 1,
                          !.orderNumber = orders[res.id].orderNumber]
  /\ UNCHANGED <<backend, now, authVars, productVars, orderVars, blogVars,
                 contactVars, res>>

\* onSuccess, second statement: setOrderComplete(true)
SetOrderComplete ==
  /\ page.step = 1
  /\ page' = [page EXCEPT !.step = 2, !.orderComplete = TRUE]
  /\ UNCHANGED <<backend, now, authVars, productVars, orderVars, blogVars,
                 contactVars, res>>

\* onSuccess, third statement: clearCart()
ClearCart ==
  /\ page.step = 2
  /\ page' = [page EXCEPT !.step = 0, !.items = <<>>]
  /\ UNCHANGED <<backend, now, authVars, productVars, orderVars, blogVars,
                 contactVars, res>>

\* "Continue Shopping" on the confirmation: setLocation("/shop")
ContinueShopping ==
  /\ page.location = "/checkout"
  /\ View = "confirmation"
  /\ page.step = 0
  /\ page' = [page EXCEPT !.location = "/shop"]
  /\ UNCHANGED <<backend, now, authVars, productVars, orderVars, blogVars,
                 contactVars, res>>

\* ------------------------------------------------------------------- Init
SeedProduct(id, name, price, category, stock) ==
  [id |-> id, name |-> name, price |-> price, category |-> category,
   stock |-> <<stock>>, isActive |-> T, createdAt |-> 0]

\* MemStorage.seedData: sampleProducts
SeedProducts ==
  <<SeedProduct(1, <<"F","r","e","s","h"," ","D","u","c","k"," ","E","g","g","s"," ",
                     "(","D","o","z","e","n",")">>, 699, "Eggs", 50),
    SeedProduct(2, <<"O","r","g","a","n","i","c"," ","D","u","c","k"," ","E","g","g",
                     "s"," ","(","H","a","l","f"," ","D","o","z","e","n",")">>,
                499, "Eggs", 30),
    SeedProduct(3, <<"W","h","o","l","e"," ","R","o","a","s","t","e","d"," ","D","u",
                     "c","k">>, 2499, "Meat", 15),
    SeedProduct(4, <<"D","u","c","k"," ","B","r","e","a","s","t"," ","F","i","l","l",
                     "e","t","s">>, 1899, "Meat", 25),
    SeedProduct(5, <<"D","u","c","k"," ","L","e","g"," ","Q","u","a","r","t","e","r",
                     "s">>, 1299, "Meat", 20),
    SeedProduct(6, <<"P","r","e","m","i","u","m"," ","D","u","c","k"," ","F","a","t">>,
                899, "Specialty", 40)>>

\* MemStorage.seedData: sampleBlogPosts
SeedBlogPosts ==
  <<[id |-> 1, title |-> "The Benefits of Duck Eggs", slug |-> "benefits-of-duck-eggs",
     isPublished |-> T, authorId |-> "admin", createdAt |-> 0],
    [id |-> 2, title |-> "Farm-to-Table: Our Sustainable Practices",
     slug |-> "sustainable-farming-practices",
     isPublished |-> T, authorId |-> "admin", createdAt |-> 0]>>

\* The server after start-up: MemStorage as its constructor leaves it, the
\* database with its tables empty; no user, no session data, no order.
Init ==
  /\ backend \in {"mem", "db"}
  /\ now = 0
  /\ users = EmptyMap
  /\ sessions = [sid \in SessionIds |-> EmptySession]
  /\ products = IF backend = "mem" THEN SeedProducts ELSE EmptyMap
  /\ nextProductId = FirstProductId
  /\ orders = EmptyMap
  /\ orderItems = {}
  /\ nextOrderId = 1
  /\ nextOrderItemId = 1
  /\ blogPosts = IF backend = "mem" THEN SeedBlogPosts ELSE EmptyMap
  /\ nextBlogPostId = FirstBlogPostId
  /\ contactMessages = EmptyMap
  /\ nextContactId = 1
  /\ inflight = {}
  /\ placed = EmptyMap
  /\ res = NoResponse
  /\ page = ClosedPage

\* ------------------------------------------------------------ request inputs
Customer(totalAmount, status) ==
  [customerName |-> "Ann", customerPhone |-> "555-0100",
   customerAddress |-> "1 Farm Road", totalAmount |-> totalAmount, status |-> status]

\* 2 x Fresh Duck Eggs (Dozen) at 6.99
ItemEggs ==
  [productId |-> <<1>>, quantity |-> <<2>>, pricePerUnit |-> <<699>>,
   totalPrice |-> <<1398>>]

\* a line item without productId
ItemNoProduct ==
  [productId |-> <<>>, quantity |-> <<1>>, pricePerUnit |-> <<499>>,
   totalPrice |-> <<499>>]

\* a line item without quantity
ItemNoQuantity ==
  [productId |-> <<1>>, quantity |-> <<>>, pricePerUnit |-> <<699>>,
   totalPrice |-> <<699>>]

OrderBody(order, isArray, items) ==
  [order |-> order, isArray |-> isArray, items |-> items]

\* The bodies POST /api/orders is sent.
OrderBodies ==
  { OrderBody(Customer(<<1398>>, Undefined), TRUE, <<ItemEggs>>),
    OrderBody(Customer(<<1000>>, "shipped"), TRUE, <<ItemNoProduct>>),
    OrderBody(Customer(<<1897>>, Undefined), TRUE, <<ItemNoProduct, ItemEggs>>),
    OrderBody(Customer(<<0>>, Undefined), TRUE, <<>>),
    OrderBody(Customer(<<>>, Undefined), TRUE, <<ItemEggs>>),
    OrderBody(Customer(<<699>>, Undefined), TRUE, <<ItemNoQuantity>>),
    OrderBody(Customer(<<1398>>, Undefined), FALSE, <<>>) }

\* The status values PUT /api/admin/orders/:id/status is sent.
StatusInputs == Statuses \cup {"bogus", Undefined}

ReqOrderIds == {1, MaxOrders + 1}

Credentials == {<<"admin", "admin123">>, <<"admin", "letmein">>}

\* The values Math.floor(Math.random() * 1000) takes in the flows below.
RandomValues == {0, 999}

\* --------------------------------------------------- placing orders
NextOrders ==
  \/ TickMs
  \/ \E body \in OrderBodies, rnd \in RandomValues : PostOrders("s2", body, rnd)
  \/ \E f \in inflight : DbInsertOrderItems(f)

SpecOrders == Init /\ [][NextOrders]_vars

\* --------------------------------------------- orders and their status
StatusFlowBodies ==
  { OrderBody(Customer(<<499>>, Undefined), TRUE, <<ItemNoProduct>>),
    OrderBody(Customer(<<1000>>, "shipped"), TRUE, <<ItemNoProduct>>) }

NextStatus ==
  \/ \E c \in Credentials : AdminLogin("s1", c[1], c[2])
  \/ \E body \in StatusFlowBodies : PostOrders("s2", body, 0)
  \/ \E f \in inflight : DbInsertOrderItems(f)
  \/ \E sid \in SessionIds, id \in ReqOrderIds, st \in StatusInputs :
       PutOrderStatus(sid, id, st, NoGrant)
  \/ \E sid \in SessionIds : GetAdminOrders(sid, NoGrant)

SpecStatus == Init /\ [][NextStatus]_vars

\* ------------------------------------------------------- the catalog
NewName == <<"d","u","c","k"," ","p","a","t","e">>

ProductBody(name, price, category, stock, isActive, wellTyped) ==
  [name |-> name, price |-> price, category |-> category, stock |-> stock,
   isActive |-> isActive, wellTyped |-> wellTyped]

\* The bodies POST /api/admin/products is sent.
ProductBodies ==
  { ProductBody(<<NewName>>, <<999>>, "Specialty", Val(5), T, TRUE),
    ProductBody(<<NewName>>, <<999>>, "Specialty", Absent, Undefined, TRUE),
    ProductBody(<<NewName>>, <<999>>, "Specialty", Val(5), F, TRUE),
    ProductBody(<<>>, <<999>>, "Specialty", Val(5), T, TRUE) }

\* The bodies PUT /api/admin/products/:id is sent.
ProductPatches ==
  { ProductBody(<<>>, <<>>, Undefined, Absent, F, TRUE),
    ProductBody(<<>>, <<>>, Undefined, Absent, T, TRUE),
    ProductBody(<<>>, <<>>, Undefined, Absent, Null, TRUE),
    ProductBody(<<>>, <<1299>>, "Eggs", Val(0), Undefined, TRUE),
    ProductBody(<<>>, <<1299>>, Undefined, Absent, Undefined, FALSE) }

ReqProductIds == {1, 7, 9}

NewProduct == ProductBody(<<NewName>>, <<999>>, "Specialty", Val(5), T, TRUE)

\* A product sent without stock and without isActive (in ProductBodies).
BareProduct == ProductBody(<<NewName>>, <<999>>, "Specialty", Absent, Undefined, TRUE)

NewPrice == ProductBody(<<>>, <<1299>>, Undefined, Absent, Undefined, TRUE)

Restock == ProductBody(<<>>, <<>>, Undefined, Val(10), T, TRUE)

\* The search terms and categories GET /api/products is sent.
SearchTerms ==
  {<<>>, <<"d","u","c","k">>, <<"D","U","C","K">>, <<"E","g","g">>, <<"_">>}

Categories == {Undefined, "All Categories", "Eggs", "Specialty"}

NextCatalog ==
  \/ TickMs
  \/ \E c \in Credentials : AdminLogin("s1", c[1], c[2])
  \/ \E sid \in SessionIds, p \in ProductBodies : PostAdminProduct(sid, p, NoGrant)
  \/ \E sid \in SessionIds, id \in ReqProductIds, p \in ProductPatches :
       PutAdminProduct(sid, id, p, NoGrant)
  \/ \E sid \in SessionIds, id \in ReqProductIds : DeleteAdminProduct(sid, id, NoGrant)
  \/ \E search \in SearchTerms, category \in Categories :
       GetProducts("s2", search, category)
  \/ \E id \in ReqProductIds : GetProduct("s2", id)

SpecCatalog == Init /\ [][NextCatalog]_vars

\* ------------------------------------------------------ the dashboard
NextStats ==
  \/ \E c \in Credentials : AdminLogin("s1", c[1], c[2])
  \/ \E body \in StatusFlowBodies : PostOrders("s2", body, 0)
  \/ \E f \in inflight : DbInsertOrderItems(f)
  \/ \E st \in {"cancelled", "delivered"} : PutOrderStatus("s1", 1, st, NoGrant)
  \/ \E p \in ProductBodies : PostAdminProduct("s1", p, NoGrant)
  \/ \E id \in ReqProductIds : DeleteAdminProduct("s1", id, NoGrant)
  \/ \E sid \in SessionIds : GetAdminStats(sid, NoGrant)

SpecStats == Init /\ [][NextStats]_vars

\* ------------------------------------------- orders and the catalog
\* 500 x Fresh Duck Eggs (Dozen): more than the 50 in stock
ItemBulk ==
  [productId |-> <<1>>, quantity |-> <<500>>, pricePerUnit |-> <<699>>,
   totalPrice |-> <<349500>>]

\* a line item for a product id that is not stored
ItemMissing ==
  [productId |-> <<9>>, quantity |-> <<1>>, pricePerUnit |-> <<699>>,
   totalPrice |-> <<699>>]

ShopBodies ==
  { OrderBody(Customer(<<1398>>, Undefined), TRUE, <<ItemEggs>>),
    OrderBody(Customer(<<349500>>, Undefined), TRUE, <<ItemBulk>>),
    OrderBody(Customer(<<699>>, Undefined), TRUE, <<ItemMissing>>) }

NextShop ==
  \/ \E c \in Credentials : AdminLogin("s1", c[1], c[2])
  \/ PostAdminProduct("s1", NewProduct, NoGrant)
  \/ \E p \in {NewPrice, Restock} : PutAdminProduct("s1", 1, p, NoGrant)
  \/ DeleteAdminProduct("s1", 1, NoGrant)
  \/ \E body \in ShopBodies : PostOrders("s2", body, 0)
  \/ \E f \in inflight : DbInsertOrderItems(f)

SpecShop == Init /\ [][NextShop]_vars

\* ------------------------------------------------------------ the blog
BlogBody(title, content, slug, isPublished, wellTyped) ==
  [title |-> title, content |-> content, slug |-> slug,
   isPublished |-> isPublished, wellTyped |-> wellTyped]

NewPost == BlogBody("Duck Care", "Ducks need water.", "duck-care", Undefined, TRUE)

Unpublish == BlogBody(Undefined, Undefined, Undefined, F, TRUE)

\* The bodies POST /api/admin/blog is sent: published, left open, draft, and
\* one without content.
BlogBodies ==
  { BlogBody("Duck Care", "Ducks need water.", "duck-care", T, TRUE),
    NewPost,
    BlogBody("Duck Care", "Ducks need water.", "duck-care", F, TRUE),
    BlogBody("Duck Care", Undefined, "duck-care", T, TRUE) }

\* The bodies PUT /api/admin/blog/:id is sent.
BlogPatches ==
  { Unpublish,
    BlogBody(Undefined, Undefined, Undefined, T, TRUE),
    BlogBody("Duck Care 2", Undefined, "benefits-of-duck-eggs", Undefined, TRUE),
    BlogBody(Undefined, Undefined, Undefined, T, FALSE) }

ReqBlogPostIds == {1, 3, 5}

Slugs == {"duck-care", "benefits-of-duck-eggs", "no-such-post"}

NextBlog ==
  \/ \E c \in Credentials : AdminLogin("s1", c[1], c[2])
  \/ \E sid \in SessionIds, b \in BlogBodies : PostAdminBlog(sid, b, NoGrant)
  \/ \E sid \in SessionIds, id \in ReqBlogPostIds, b \in BlogPatches :
       PutAdminBlog(sid, id, b, NoGrant)
  \/ \E sid \in SessionIds, id \in ReqBlogPostIds : DeleteAdminBlog(sid, id, NoGrant)
  \/ \E sid \in SessionIds : GetAdminBlog(sid, NoGrant)
  \/ GetBlog("s2")
  \/ \E slug \in Slugs : GetBlogSlug("s2", slug)

SpecBlog == Init /\ [][NextBlog]_vars

\* ------------------------------------------------ writes and validation
NewMessage == [name |-> "Ann", email |-> "ann@example.com", message |-> "Hello"]

SmallOrder == OrderBody(Customer(<<499>>, Undefined), TRUE, <<ItemNoProduct>>)

\* Bodies for each write route: one that passes validation, the others not.
WriteOrderBodies ==
  { SmallOrder,
    OrderBody(Customer(<<>>, Undefined), TRUE, <<ItemNoProduct>>),
    OrderBody(Customer(<<699>>, Undefined), TRUE, <<ItemNoProduct, ItemNoQuantity>>),
    OrderBody(Customer(<<499>>, Undefined), FALSE, <<>>) }

WriteProductBodies ==
  { NewProduct, ProductBody(<<>>, <<999>>, "Specialty", Val(5), T, TRUE) }

WriteProductPatches ==
  { NewPrice, ProductBody(<<>>, <<1299>>, Undefined, Absent, Undefined, FALSE) }

WriteBlogBodies ==
  { NewPost, BlogBody("Duck Care", Undefined, "duck-care", T, TRUE) }

WriteBlogPatches ==
  { Unpublish, BlogBody(Undefined, Undefined, Undefined, T, FALSE) }

WriteMessages ==
  { NewMessage, [name |-> "Ann", email |-> Undefined, message |-> "Hello"] }

NextWrites ==
  \/ \E c \in Credentials : AdminLogin("s1", c[1], c[2])
  \/ \E body \in WriteOrderBodies : PostOrders("s2", body, 0)
  \/ \E f \in inflight : DbInsertOrderItems(f)
  \/ \E p \in WriteProductBodies : PostAdminProduct("s1", p, NoGrant)
  \/ \E p \in WriteProductPatches : PutAdminProduct("s1", 1, p, NoGrant)
  \/ \E b \in WriteBlogBodies : PostAdminBlog("s1", b, NoGrant)
  \/ \E b \in WriteBlogPatches : PutAdminBlog("s1", 1, b, NoGrant)
  \/ \E m \in WriteMessages : PostContact("s2", m)

SpecWrites == Init /\ [][NextWrites]_vars

\* ------------------------------------------- the whole route surface


\* The lifetime, in seconds, of the tokens the provider issues.
TokenTtl == 1

\* The grant a refresh can get at this moment.
GrantsNow ==
  {NoGrant} \cup
  {[ok |-> TRUE, exp |-> NowSec + TokenTtl, refresh_token |-> r] : r \in BOOLEAN}

\* Every admin route, requested by session sid.
AdminRequest(sid, grant) ==
  \/ PostAdminProduct(sid, NewProduct, grant)
  \/ PutAdminProduct(sid, 1, NewPrice, grant)
  \/ DeleteAdminProduct(sid, 1, grant)
  \/ GetAdminOrders(sid, grant)
  \/ PutOrderStatus(sid, 1, "shipped", grant)
  \/ GetAdminBlog(sid, grant)
  \/ PostAdminBlog(sid, NewPost, grant)
  \/ PutAdminBlog(sid, 1, Unpublish, grant)
  \/ DeleteAdminBlog(sid, 1, grant)
  \/ GetAdminContact(sid, grant)
  \/ GetAdminStats(sid, grant)

Next ==
  \/ \E c \in Credentials : AdminLogin("s1", c[1], c[2])
  \/ Logout("s1")
  \/ GetAuthUser("s1")
  \/ PostOrders("s2", SmallOrder, 0)
  \/ \E f \in inflight : DbInsertOrderItems(f)
  \/ PostContact("s2", NewMessage)
  \/ AdminRequest("s1", NoGrant)

Spec == Init /\ [][Next]_vars

\* ------------------------------------------------------- the admin gate
NextGate ==
  \/ TickSec
  \/ \E c \in Credentials : AdminLogin("s1", c[1], c[2])
  \/ Logout("s1")
  \/ \E sub \in ExternalSubs, r \in BOOLEAN, regenerate \in BOOLEAN :
       ExternalCallback("s1", sub, NowSec + TokenTtl, r, regenerate)
  \/ \E regenerate \in BOOLEAN : ExternalLogout("s1", regenerate)
  \/ \E sid \in SessionIds : GetAuthUser(sid)
  \/ \E sid \in SessionIds, grant \in GrantsNow :
       \/ GetAdminOrders(sid, grant)
       \/ GetAdminStats(sid, grant)
       \/ DeleteAdminProduct(sid, 1, grant)
       \/ PostAdminBlog(sid, NewPost, grant)

SpecGate == Init /\ [][NextGate]_vars

\* ------------------------------------------------- logging in and out
NextLogout ==
  \/ TickSec
  \/ \E c \in Credentials : AdminLogin("s1", c[1], c[2])
  \/ \E sub \in ExternalSubs, r \in BOOLEAN, regenerate \in BOOLEAN :
       ExternalCallback("s1", sub, NowSec + TokenTtl, r, regenerate)
  \/ Logout("s1")
  \/ GetAuthUser("s1")
  \/ \E grant \in GrantsNow :
       \/ GetAdminOrders("s1", grant)
       \/ GetAdminContact("s1", grant)
       \/ DeleteAdminProduct("s1", 1, grant)
       \/ PostAdminBlog("s1", NewPost, grant)

SpecLogout == Init /\ [][NextLogout]_vars

\* ------------------------------------------------------- the admin login
\* The credentials POST /api/auth/admin-login is sent: the configured pair, a
\* wrong password, a wrong user name, and the user name in another case.
LoginAttempts ==
  {<<"admin", "admin123">>, <<"admin", "letmein">>, <<"root", "admin123">>,
   <<"Admin", "admin123">>}

NextLogin ==
  \/ TickSec
  \/ \E sid \in SessionIds, c \in LoginAttempts : AdminLogin(sid, c[1], c[2])
  \/ \E sid \in SessionIds : Logout(sid)
  \/ \E sub \in {"ext1", "ext3"}, regenerate \in BOOLEAN :
       ExternalCallback("s1", sub, NowSec + TokenTtl, FALSE, regenerate)
  \/ \E sid \in SessionIds : GetAuthUser(sid)
  \/ \E sid \in SessionIds : GetAdminOrders(sid, NoGrant)

SpecLogin == Init /\ [][NextLogin]_vars

\* --------------------------------------------- rows that are not there
\* The ids and slugs below address a stored row in some states and none in
\* others: the tables of the database start empty, MemStorage starts seeded.
NextLookup ==
  \/ \E c \in Credentials : AdminLogin("s1", c[1], c[2])
  \/ PostOrders("s2", SmallOrder, 0)
  \/ \E f \in inflight : DbInsertOrderItems(f)
  \/ PostAdminProduct("s1", NewProduct, NoGrant)
  \/ PostAdminBlog("s1", NewPost, NoGrant)
  \/ \E id \in ReqBlogPostIds : DeleteAdminBlog("s1", id, NoGrant)
  \/ \E id \in ReqProductIds : GetProduct("s2", id)
  \/ \E slug \in Slugs : GetBlogSlug("s2", slug)
  \/ \E id \in ReqProductIds : PutAdminProduct("s1", id, NewPrice, NoGrant)
  \/ \E id \in ReqOrderIds : PutOrderStatus("s1", id, "shipped", NoGrant)
  \/ \E id \in ReqBlogPostIds : PutAdminBlog("s1", id, Unpublish, NoGrant)

SpecLookup == Init /\ [][NextLookup]_vars

\* ---------------------------------------------------- ordered quantities
\* 0 x Fresh Duck Eggs (Dozen)
ItemNone ==
  [productId |-> <<>>, quantity |-> <<0>>, pricePerUnit |-> <<699>>,
   totalPrice |-> <<0>>]

\* -3 x Fresh Duck Eggs (Dozen)
ItemNegative ==
  [productId |-> <<>>, quantity |-> <<0 - 3>>, pricePerUnit |-> <<699>>,
   totalPrice |-> <<0 - 2097>>]

QuantityBodies ==
  { OrderBody(Customer(<<499>>, Undefined), TRUE, <<ItemNoProduct>>),
    OrderBody(Customer(<<0>>, Undefined), TRUE, <<ItemNone>>),
    OrderBody(Customer(<<499>>, Undefined), TRUE, <<ItemNoProduct, ItemNegative>>),
    OrderBody(Customer(<<699>>, Undefined), TRUE, <<ItemNoQuantity>>) }

NextQuantity ==
  \/ TickMs
  \/ \E body \in QuantityBodies, rnd \in RandomValues : PostOrders("s2", body, rnd)
  \/ \E f \in inflight : DbInsertOrderItems(f)

SpecQuantity == Init /\ [][NextQuantity]_vars

\* ------------------------------------------------------ prices and stock
\* Bodies for POST /api/admin/products: an ordinary product, one priced
\* "0.00", one priced "-5.00", one with stock -5.
PriceBodies ==
  { NewProduct,
    ProductBody(<<NewName>>, <<0>>, "Specialty", Val(5), T, TRUE),
    ProductBody(<<NewName>>, <<0 - 500>>, "Specialty", Val(5), T, TRUE),
    ProductBody(<<NewName>>, <<999>>, "Specialty", Val(0 - 5), T, TRUE) }

\* Bodies for PUT /api/admin/products/:id: a new price, the price "-1.00",
\* the stock -1, a restock.
PricePatches ==
  { NewPrice,
    ProductBody(<<>>, <<0 - 100>>, Undefined, Absent, Undefined, TRUE),
    ProductBody(<<>>, <<>>, Undefined, Val(0 - 1), Undefined, TRUE),
    Restock }

NextPrices ==
  \/ \E c \in Credentials : AdminLogin("s1", c[1], c[2])
  \/ \E sid \in SessionIds, p \in PriceBodies : PostAdminProduct(sid, p, NoGrant)
  \/ \E sid \in SessionIds, id \in {1, 7}, p \in PricePatches :
       PutAdminProduct(sid, id, p, NoGrant)

SpecPrices == Init /\ [][NextPrices]_vars

\* --------------------------------------------------------- checking out
\* The server handles the request the page sent, and nothing else.
NextCheckout ==
  \/ TickMs
  \/ \E line \in CartLines : AddItem(line)
  \/ OpenCheckout
  \/ RedirectToCart
  \/ SubmitOrder
  \/ NetworkFails
  \/ /\ page.mutation = "pending"
     /\ nextOrderId = page.ticket
     /\ \E rnd \in {0} : PostOrders("s2", page.request, rnd)
  \/ \E f \in inflight : DbInsertOrderItems(f)
  \/ CheckoutError
  \/ CheckoutSuccess
  \/ SetOrderComplete
  \/ ClearCart
  \/ ContinueShopping

SpecCheckout == Init /\ [][NextCheckout]_vars

\* ------------------------------------------------------------------ claims
\* An order whose createOrder call has not finished (DatabaseStorage only).
InFlight(id) == \E f \in inflight : f.id = id

\* The stored rows of an order are the line items its request carried.
HasItsItems(id) ==
  /\ Cardinality(ItemsOf(id)) = Len(placed[id])
  /\ \A k \in 1..Len(placed[id]) :
       \E r \in ItemsOf(id) :
         /\ r.quantity = placed[id][k].quantity[1]
         /\ r.pricePerUnit = placed[id][k].pricePerUnit[1]
         /\ r.totalPrice = placed[id][k].totalPrice[1]

AdminRoutes ==
  {"POST /api/admin/products", "PUT /api/admin/products/:id",
   "DELETE /api/admin/products/:id", "GET /api/admin/orders",
   "PUT /api/admin/orders/:id/status", "GET /api/admin/blog",
   "POST /api/admin/blog", "PUT /api/admin/blog/:id", "DELETE /api/admin/blog/:id",
   "GET /api/admin/contact", "GET /api/admin/stats"}

\* The session carries neither a userId nor an external identity.
Anonymous(s) == ~Truthy(s.userId) /\ s.passport.sub = Null

\* C1: a request to an admin route from a session that carries neither a
\* userId nor an external identity is answered 401 with a message, and the step
\* changes no store, no sequence and no user.
C1_AnonymousDenied ==
  [][(res'.route \in AdminRoutes /\ Anonymous(sessions[res'.sid]))
       => /\ res'.status = 401
          /\ res'.body = "message"
          /\ UNCHANGED <<products, orders, orderItems, blogPosts, contactMessages,
                         users, nextProductId, nextOrderId, nextOrderItemId,
                         nextBlogPostId, nextContactId>>]_vars

\* C1 witness: with orders, messages, products and posts stored, an anonymous
\* DELETE of an existing blog post was answered 401.
C1_Witness ==
  /\ res.route = "DELETE /api/admin/blog/:id"
  /\ res.status = 401
  /\ Anonymous(sessions[res.sid])
  /\ 1 \in DOMAIN blogPosts
  /\ 1 \in DOMAIN products
  /\ orders # EmptyMap
  /\ contactMessages # EmptyMap

\* The identities the gate may let through: the session of a successful
\* admin-login, or an external identity that is unexpired and allow-listed.
MayAdminister(s) ==
  \/ s.userId = "admin" /\ s.isAdmin = T
  \/ /\ s.passport.sub # Null
     /\ s.passport.expires_at # 0
     /\ NowSec <= s.passport.expires_at
     /\ AllowListed(s.passport.sub)

\* C2: the gate lets a request to an admin route through only for the session
\* of a successful admin-login or for an external identity that is valid,
\* unexpired and allow-listed; every other request is answered 401.
C2_OnlyAdminsPass ==
  [][(res'.route \in AdminRoutes /\ now' = now /\ ~MayAdminister(sessions[res'.sid]))
       => res'.status = 401]_vars

\* C3: POST /api/orders with an empty items array is rejected and persists
\* nothing: no stored order stems from a request whose items array was empty.
C3_EmptyItemsPersistNothing ==
  \A id \in DOMAIN orders : placed[id] # <<>>

\* C4: createOrder is all-or-nothing: once the call is over, a stored order
\* header has all the line items it was placed with.
C4_HeaderHasAllItems ==
  \A id \in DOMAIN orders : ~InFlight(id) => HasItsItems(id)

\* C5: no two stored orders have the same orderNumber.
C5_OrderNumbersDistinct ==
  \A i, j \in DOMAIN orders : i # j => orders[i].orderNumber # orders[j].orderNumber

\* C6: the stored totalAmount of a persisted order is the sum of the totalPrice
\* of its stored line items.
C6_TotalIsSumOfItems ==
  \A id \in DOMAIN orders :
    ~InFlight(id) => orders[id].totalAmount = SumTotalPrice(ItemsOf(id))

\* C7: an order has status pending right after POST /api/orders created it.
C7_PendingWhenPlaced ==
  (res.route = "POST /api/orders" /\ res.status = 200)
    => orders[res.id].status = "pending"

\* C8: the status of every stored order is one of the five values.
C8_StatusInEnum ==
  \A id \in DOMAIN orders : orders[id].status \in Statuses

\* C9: an authorized PUT /api/admin/orders/:id/status on an existing order with
\* any of the five values succeeds, whatever the current status, and the stored
\* status afterwards is the value sent.
C9_AnyTransitionAccepted ==
  [][\A sid \in SessionIds, id \in DOMAIN orders, st \in Statuses :
       (isAuthenticated(sessions[sid], NoGrant) /\ PutOrderStatus(sid, id, st, NoGrant))
         => (res'.status = 200 /\ orders'[id].status = st)]_vars

\* C9 witness: a delivered order was set back to pending.
C9_Witness ==
  /\ res.route = "PUT /api/admin/orders/:id/status"
  /\ res.status = 200
  /\ res.before = "delivered"
  /\ orders[res.id].status = "pending"

\* C10: whatever the search term and the category, GET /api/products lists no
\* product whose isActive is false or unset.
C10_ListedAreActive ==
  \A search \in SearchTerms, category \in Categories :
    \A p \in Listed(search, category) : p.isActive = T

\* C10 witness: the store holds a deactivated product and one whose isActive is
\* unset, and the listing is not empty.
C10_Witness ==
  /\ \E id \in DOMAIN products : products[id].isActive = F
  /\ \E id \in DOMAIN products : products[id].isActive = Null
  /\ Listed(<<>>, Undefined) # {}
  /\ res.route = "GET /api/products"

\* C11: deleteProduct on an existing product leaves the row in the store with
\* isActive false and every other field as before: getProduct still returns it,
\* and no getAllProducts result, whatever the search and category, holds it.
C11_SoftDeleteKeepsRow ==
  (res.route = "DELETE /api/admin/products/:id" /\ res.status = 200
     /\ res.before.id # 0)
  => /\ getProduct(res.id) = [res.before EXCEPT !.isActive = F]
     /\ \A search \in SearchTerms, category \in Categories :
          \A p \in Listed(search, category) : p.id # res.id

\* C11 witness: an active product whose price had been changed was deleted; its
\* row is still stored, inactive, and other products are still listed.
C11_Witness ==
  /\ res.route = "DELETE /api/admin/products/:id"
  /\ res.status = 200
  /\ res.before.id = res.id
  /\ res.before.isActive = T
  /\ res.before.price = 1299
  /\ getProduct(res.id).isActive = F
  /\ Listed(<<>>, Undefined) # {}

\* The amount a toFixed(2) string stands for, in cents.
AmountOf(fixed) == fixed.whole * 100 + fixed.frac

\* The sum of totalAmount over the stored orders ids, in cents.
RECURSIVE SumOfTotals(_)
SumOfTotals(ids) ==
  IF ids = {} THEN 0
  ELSE LET i == CHOOSE x \in ids : TRUE
       IN  orders[i].totalAmount + SumOfTotals(ids \ {i})

\* C12: the totalRevenue GET /api/admin/stats returns is the sum of totalAmount
\* over all stored orders, whatever their status, and totalOrders is the number
\* of stored orders.
C12_RevenueCountsEveryOrder ==
  (res.route = "GET /api/admin/stats" /\ res.status = 200)
  => /\ AmountOf(res.stats.totalRevenue) = SumOfTotals(DOMAIN orders)
     /\ res.stats.totalOrders = Cardinality(DOMAIN orders)

\* C12 witness: the stats were served with two orders stored, one of them
\* cancelled, and the revenue is the sum of both, 14.99.
C12_Witness ==
  /\ res.route = "GET /api/admin/stats"
  /\ res.status = 200
  /\ Cardinality(DOMAIN orders) = 2
  /\ \E id \in DOMAIN orders : orders[id].status = "cancelled"
  /\ \E id \in DOMAIN orders : orders[id].status # "cancelled"
  /\ res.stats.totalRevenue = [whole |-> 14, frac |-> 99]

\* The stored products whose isActive is true.
ActiveProducts == {id \in DOMAIN products : products[id].isActive = T}

\* C13 (as stated): the totalProducts GET /api/admin/stats returns is the
\* number of all stored products, inactive ones included.
C13_CountsAllProducts ==
  (res.route = "GET /api/admin/stats" /\ res.status = 200)
  => res.stats.totalProducts = Cardinality(DOMAIN products)

\* C13 (amended): the totalProducts GET /api/admin/stats returns is the number
\* of stored products whose isActive is true; inactive products are not counted.
C13_CountsActiveProducts ==
  (res.route = "GET /api/admin/stats" /\ res.status = 200)
  => res.stats.totalProducts = Cardinality(ActiveProducts)

\* C13 witness: the stats were served while a deactivated product was stored,
\* next to active ones.
C13_Witness ==
  /\ res.route = "GET /api/admin/stats"
  /\ res.status = 200
  /\ \E id \in DOMAIN products : products[id].isActive = F
  /\ ActiveProducts # {}
  /\ res.stats.totalProducts = Cardinality(ActiveProducts)

\* C14: the public blog endpoints return no unpublished post: a stored post
\* whose isPublished is not true is not in the list GET /api/blog returns, and
\* GET /api/blog/:slug with its slug does not return it.
C14_PublicBlogPublishedOnly ==
  \A id \in DOMAIN blogPosts :
    blogPosts[id].isPublished # T
    => /\ blogPosts[id] \notin getAllBlogPosts(TRUE)
       /\ blogPosts[id] \notin getBlogPost(blogPosts[id].slug)

\* C15: a POST /api/orders request leaves the product store as it was: no
\* product row changes (stock, price and isActive included), whatever the
\* quantities ordered and whether the product is in stock, active or stored.
C15_OrdersLeaveProductsAlone ==
  [][res'.route = "POST /api/orders" => UNCHANGED <<products, nextProductId>>]_vars

\* C15 witness: an order for 500 units of a deactivated product with fewer in
\* stock was placed; the product still shows its stock.
C15_Witness ==
  /\ res.route = "POST /api/orders"
  /\ res.status = 200
  /\ \E r \in ItemsOf(res.id) :
       /\ r.productId = <<1>>
       /\ r.quantity = 500
       /\ products[1].isActive = F
       /\ products[1].stock # <<>>
       /\ products[1].stock[1] < r.quantity

\* C16: a product create, update or delete leaves every stored order and every
\* stored line item as it was (productId, quantity, pricePerUnit, totalPrice and
\* the order's totalAmount included).
C16_ProductWritesLeaveOrdersAlone ==
  [][res'.route \in {"POST /api/admin/products", "PUT /api/admin/products/:id",
                     "DELETE /api/admin/products/:id"}
       => UNCHANGED <<orders, orderItems>>]_vars

\* C16 witness: product 1 was deleted after its price had been raised to 12.99,
\* and a stored line item still references it at the 6.99 it was ordered for.
C16_Witness ==
  /\ res.route = "DELETE /api/admin/products/:id"
  /\ res.status = 200
  /\ res.id = 1
  /\ 1 \in DOMAIN products
  /\ products[1].price = 1299
  /\ products[1].isActive = F
  /\ \E r \in orderItems :
       r.productId = <<1>> /\ r.pricePerUnit = 699 /\ r.totalPrice = 1398

\* The routes that validate a body.
ValidatingRoutes ==
  {"POST /api/orders", "POST /api/admin/products", "PUT /api/admin/products/:id",
   "POST /api/admin/blog", "PUT /api/admin/blog/:id", "POST /api/contact"}

\* C17: a write request answered 400 leaves every store, every id sequence and
\* the users as they were; in particular no order header stays behind when the
\* items of an order fail validation.
C17_RejectedWritesChangeNothing ==
  [][(res'.status = 400 /\ res'.route \in ValidatingRoutes)
       => UNCHANGED <<products, orders, orderItems, blogPosts, contactMessages,
                      users, nextProductId, nextOrderId, nextOrderItemId,
                      nextBlogPostId, nextContactId, inflight, placed>>]_vars

\* C17 witness: an order whose second item lacks its quantity was answered 400
\* while orders, messages and created products were stored.
C17_Witness ==
  /\ res.route = "POST /api/orders"
  /\ res.status = 400
  /\ orders # EmptyMap
  /\ contactMessages # EmptyMap
  /\ nextProductId > FirstProductId
  /\ nextBlogPostId > FirstBlogPostId

\* The products the claim expects for a search term and a category: the active
\* ones whose name contains the term, compared case-insensitively, and whose
\* category is the given one (any category when it is absent or 'All Categories').
Expected(search, category) ==
  {products[id] : id \in {i \in DOMAIN products :
     /\ products[i].isActive = T
     /\ includes(toLowerCase(products[i].name), toLowerCase(search))
     /\ category \in {Undefined, "All Categories"} \/ products[i].category = category}}

\* C18: for every search term and category, getAllProducts returns exactly the
\* expected products, MemStorage lists them newest first, and MemStorage and
\* DatabaseStorage select the same products from the same stored rows.
C18_ListingIsExactMatch ==
  \A search \in SearchTerms, category \in Categories :
    LET l == MemGetAllProducts(search, category) IN
    /\ Listed(search, category) = Expected(search, category)
    /\ \A k \in 1..(Len(l) - 1) : l[k].createdAt >= l[k + 1].createdAt
    /\ {l[k] : k \in 1..Len(l)} = DbGetAllProducts(search, category)

\* C18 restricted to the database build: what GET /api/products returns is
\* what the claim expects.
C18_DatabaseListing ==
  backend = "db" =>
    \A search \in SearchTerms, category \in Categories :
      Listed(search, category) = Expected(search, category)

\* The session carries both a userId that resolves to a stored user and an
\* authenticated external identity.
CarriesBoth(s) ==
  /\ Truthy(s.userId)
  /\ getUser(s.userId).id # Null
  /\ s.passport.sub # Null

\* C19: on a session that carries both a resolvable userId and an external
\* identity, GET /api/auth/user answers with the session identity and its
\* isAdmin flag, and an admin route passes the gate on the session alone: it is
\* not answered 401, whatever the state of the external token, and the token
\* is not refreshed.
C19_SessionBeforeToken ==
  [][\A sid \in SessionIds :
       (res'.sid = sid /\ now' = now /\ CarriesBoth(sessions[sid]))
       => /\ res'.route = "GET /api/auth/user"
               => /\ res'.status = 200
                  /\ res'.uid = sessions[sid].userId
                  /\ res'.isAdmin = IF Truthy(sessions[sid].isAdmin)
                                    THEN sessions[sid].isAdmin ELSE F
          /\ res'.route \in AdminRoutes
               => /\ res'.status # 401
                  /\ sessions'[sid] = sessions[sid]]_vars

\* C19 witness: an admin route was served to a session that carries the admin
\* userId next to an external identity whose token has expired and cannot be
\* refreshed.
C19_Witness ==
  /\ res.route \in AdminRoutes
  /\ res.status = 200
  /\ CarriesBoth(sessions[res.sid])
  /\ NowSec > sessions[res.sid].passport.expires_at
  /\ ~sessions[res.sid].passport.refresh_token

\* C20: a successful POST /api/auth/logout leaves the session without userId
\* and without external identity; a session in that state is answered 401 on
\* every admin route and on GET /api/auth/user; and only a successful
\* admin-login or external login on the session ends that state.
C20_LoggedOutUntilLogin ==
  [][\A sid \in SessionIds :
       /\ (res'.route = "POST /api/auth/logout" /\ res'.sid = sid
              /\ res'.status = 200)
            => Anonymous(sessions'[sid])
       /\ (Anonymous(sessions[sid]) /\ res'.sid = sid /\ now' = now
              /\ res'.route \in AdminRoutes \cup {"GET /api/auth/user"})
            => res'.status = 401
       /\ (Anonymous(sessions[sid]) /\ ~Anonymous(sessions'[sid]))
            => /\ res'.sid = sid
               /\ \/ res'.route = "POST /api/auth/admin-login" /\ res'.status = 200
                  \/ res'.route = "GET /api/callback" /\ res'.status = 302]_vars

\* C20 witness: the admin had logged in on the session and an external user
\* too; after the logout the session is empty and an admin route was answered
\* 401.
C20_Witness ==
  /\ res.route \in AdminRoutes
  /\ res.status = 401
  /\ Anonymous(sessions[res.sid])
  /\ "admin" \in DOMAIN users
  /\ "ext2" \in DOMAIN users

\* C21: POST /api/auth/admin-login sets the session's userId and isAdmin, and
\* answers 200, exactly when the submitted pair is admin / admin123; with any
\* other pair it answers 401 and leaves every session and every user as they
\* were, so a session the gate denied before is denied afterwards.
C21_LoginIffCredentials ==
  [][\A sid \in SessionIds, c \in LoginAttempts :
       AdminLogin(sid, c[1], c[2])
       => IF c = <<"admin", "admin123">>
          THEN /\ res'.status = 200
               /\ sessions'[sid].userId = "admin"
               /\ sessions'[sid].isAdmin = T
               /\ isAuthenticated(sessions'[sid], NoGrant)
          ELSE /\ res'.status = 401
               /\ sessions' = sessions
               /\ users' = users
               /\ ~isAuthenticated(sessions[sid], NoGrant)
                    => ~isAuthenticated(sessions'[sid], NoGrant)]_vars

\* C21 witness: a login with other credentials was answered 401 on a session
\* that stays without identity, while the other session holds the admin login.
C21_Witness ==
  /\ res.route = "POST /api/auth/admin-login"
  /\ res.status = 401
  /\ Anonymous(sessions[res.sid])
  /\ \E sid \in SessionIds : sessions[sid].userId = "admin" /\ sessions[sid].isAdmin = T

\* A response that is neither a success nor the internal-error response.
NotFoundOutcome(r) == r.status >= 400 /\ r.status # 500

\* C22: a request that passed the gate and addresses a product, order or blog
\* post by an id or slug no stored row has is answered with a client-error
\* status: not with a success and not with 500.
C22_MissingRowIsNotFound ==
  [][/\ \A id \in ReqProductIds :
          (GetProduct("s2", id) /\ id \notin DOMAIN products)
          => NotFoundOutcome(res')
     /\ \A slug \in Slugs :
          (GetBlogSlug("s2", slug) /\ getBlogPost(slug) = {})
          => NotFoundOutcome(res')
     /\ \A id \in ReqProductIds :
          (/\ PutAdminProduct("s1", id, NewPrice, NoGrant)
           /\ isAuthenticated(sessions["s1"], NoGrant)
           /\ id \notin DOMAIN products)
          => NotFoundOutcome(res')
     /\ \A id \in ReqOrderIds :
          (/\ PutOrderStatus("s1", id, "shipped", NoGrant)
           /\ isAuthenticated(sessions["s1"], NoGrant)
           /\ id \notin DOMAIN orders)
          => NotFoundOutcome(res')
     /\ \A id \in ReqBlogPostIds :
          (/\ PutAdminBlog("s1", id, Unpublish, NoGrant)
           /\ isAuthenticated(sessions["s1"], NoGrant)
           /\ id \notin DOMAIN blogPosts)
          => NotFoundOutcome(res')]_vars

\* C23: every stored order item has a quantity of at least 1.
C23_QuantityAtLeastOne == \A r \in orderItems : r.quantity >= 1

\* C24: every stored product has a price above zero and, when it has a stock
\* figure, one that is not negative.
C24_PricePositiveStockNonNegative ==
  \A id \in DOMAIN products :
    /\ products[id].price > 0
    /\ products[id].stock # <<>> => products[id].stock[1] >= 0

\* C25: a product created from a body without isActive and without stock is
\* stored active, passes the filter of getAllProducts() and has stock 0.
C25_CreatedActiveWithStockZero ==
  [][\A sid \in SessionIds :
       (PostAdminProduct(sid, BareProduct, NoGrant) /\ res'.status = 200)
       => /\ products'[res'.id].isActive = T
          /\ IF backend = "mem"
             THEN MemMatches(products'[res'.id], <<>>, Undefined)
             ELSE DbMatches(products'[res'.id], <<>>, Undefined)
          /\ products'[res'.id].stock = <<0>>]_vars

\* C26: no step removes a product, an order, an order item, a contact message
\* or a user, and a step that removes a blog post is a DELETE
\* /api/admin/blog/:id answered 200.
C26_OnlyBlogPostsAreRemoved ==
  [][/\ DOMAIN products \subseteq DOMAIN products'
     /\ DOMAIN orders \subseteq DOMAIN orders'
     /\ orderItems \subseteq orderItems'
     /\ DOMAIN contactMessages \subseteq DOMAIN contactMessages'
     /\ DOMAIN users \subseteq DOMAIN users'
     /\ ~(DOMAIN blogPosts \subseteq DOMAIN blogPosts')
          => /\ res'.route = "DELETE /api/admin/blog/:id"
             /\ res'.status = 200]_vars

\* C26 witness: blog post 1 was removed by a DELETE while product 1, soft
\* deleted, is still stored next to an order with its items and a message.
C26_Witness ==
  /\ res.route = "DELETE /api/admin/blog/:id"
  /\ res.status = 200
  /\ nextBlogPostId > 1
  /\ 1 \notin DOMAIN blogPosts
  /\ 1 \in DOMAIN products
  /\ products[1].isActive = F
  /\ 1 \in DOMAIN orders
  /\ ItemsOf(1) # {}
  /\ 1 \in DOMAIN contactMessages

\* C27: no two stored blog posts have the same slug.
C27_SlugsDistinct ==
  \A i \in DOMAIN blogPosts, j \in DOMAIN blogPosts :
    i # j => blogPosts[i].slug # blogPosts[j].slug

\* C28: every order GET /api/admin/orders returns carries as many line items
\* as the request that placed it, also when the read runs while a createOrder
\* call is between its two statements.
C28_ReadersSeeWholeOrders ==
  (res.route = "GET /api/admin/orders" /\ res.status = 200)
  => \A o \in res.before : Cardinality(o.items) = Len(placed[o.order.id])

\* C29: on a session the admin gate lets through, GET /api/auth/user answers
\* 200 with an identity; on a session that holds the admin login the identity
\* is the user 'admin' with isAdmin true.
C29_GateAndIdentityAgree ==
  [][\A sid \in SessionIds :
       (GetAuthUser(sid) /\ isAuthenticated(sessions[sid], NoGrant))
       => /\ res'.status = 200
          /\ sessions[sid].userId = "admin"
               => (res'.uid = "admin" /\ res'.isAdmin = T)]_vars

\* The answer to the page's request is in, and it is a success.
OrderSucceeded ==
  /\ res.route = "POST /api/orders"
  /\ res.status = 200
  /\ res.id = page.ticket
  /\ page.ticket \in DOMAIN orders

\* C30: on the checkout page (a) the cart is emptied, and the confirmation
\* shown with the orderNumber of the stored order, only once POST /api/orders
\* was answered with success; (b) a request that fails leaves the cart as it
\* was and shows no confirmation; (c) a request is sent only with a cart that
\* is not empty, and carries its lines; (d) with an empty cart and no
\* completed order the page does nothing but go to /cart; (e) the page goes
\* to /cart only then, never once an order succeeded on it.
C30_CheckoutFlow ==
  [][/\ (page'.items = <<>> /\ page.items # <<>>)
          => (OrderSucceeded /\ page.orderComplete)
     /\ (page'.orderComplete /\ ~page.orderComplete)
          => /\ OrderSucceeded
             /\ page'.orderNumber = orders[page.ticket].orderNumber
     /\ page'.mutation = "error"
          => (page'.items = page.items /\ ~page'.orderComplete)
     /\ (page'.mutation = "pending" /\ page.mutation # "pending")
          => /\ page.items # <<>>
             /\ Len(page'.request.items) = Len(page.items)
     /\ (page.location = "/checkout" /\ page.items = <<>> /\ ~page.orderComplete
           /\ page' # page)
          => page'.location = "/cart"
     /\ (page.location = "/checkout" /\ page'.location = "/cart")
          => /\ page.items = <<>>
             /\ ~page.orderComplete
             /\ page.mutation # "success"]_vars

\* C30 witness: an order of two lines went through: the confirmation shows the
\* stored order's number and the cart is empty.
C30_Witness ==
  /\ page.location = "/checkout"
  /\ View = "confirmation"
  /\ page.items = <<>>
  /\ page.step = 0
  /\ page.ticket \in DOMAIN orders
  /\ page.orderNumber = orders[page.ticket].orderNumber
  /\ Len(placed[page.ticket]) = 2

====
